---- MODULE Spec2Model ----
(***************************************************************************)
(* The transformation pipeline of backend/app/transformations.py:         *)
(* the operators (the *Transformation classes) as functions of a named     *)
(* table set and a step config, and TransformationPipeline.run as a state  *)
(* machine over the steps of a pipeline; run_report_pipeline and           *)
(* run_report of backend/app/reports.py; schedule_report and               *)
(* unschedule_report of backend/app/scheduler.py.                          *)
(***************************************************************************)
EXTENDS Integers, Sequences, FiniteSets, TLC

VARIABLES
    heap,             \* the dict objects that hold table sets: reference -> table set
    data,             \* the reference the caller passes in (and keeps)
    result,           \* the reference run works on (local `result`), "" before the copy
    transformations,  \* self.transformations: the list of step configs
    i,                \* number of steps the loop has finished
    status,           \* "ready", "running", "returned" or "raised"
    error,            \* the exception that left the call, NoExc while there is none
    input,            \* history: the caller's table set when the call started
    calls,            \* history: the 0-based indices of the steps whose transform was called
    report_runs,      \* the rows of the table report_runs, in the order they were added
    requests,         \* the calls of run_report: their inputs, position and ReportRun object
    jobs,             \* the scheduler's job store: the jobs in the order they were added
    scheduled         \* history: the calls of schedule_report and unschedule_report so far

pipelineVars == <<heap, data, result, transformations, i, status, error, input, calls>>

appVars == <<report_runs, requests, jobs, scheduled>>

vars == <<heap, data, result, transformations, i, status, error, input, calls,
          report_runs, requests, jobs, scheduled>>

\* no report was run and nothing was scheduled
AppIdle ==
    /\ report_runs = <<>>
    /\ requests = <<>>
    /\ jobs = <<>>
    /\ scheduled = <<>>

----------------------------------------------------------------------------
(* Python values.  One record shape for every value, so that values of     *)
(* different Python types can be compared.  A number is the fraction n/d   *)
(* in lowest terms (d = 1 for an int); a float is modelled as that exact   *)
(* fraction.                                                               *)

NoneV == [t |-> "none", n |-> 0, d |-> 1, s |-> ""]
IntV(x) == [t |-> "int", n |-> x, d |-> 1, s |-> ""]
StrV(x) == [t |-> "str", n |-> 0, d |-> 1, s |-> x]

Abs(x) == IF x < 0 THEN -x ELSE x

RECURSIVE Gcd(_, _)
Gcd(a, b) == IF b = 0 THEN a ELSE Gcd(b, a % b)

\* float(num / den), den > 0
FloatV(num, den) ==
    LET g == Gcd(Abs(num), den)
    IN  [t |-> "float", n |-> num \div g, d |-> den \div g, s |-> ""]

IsNum(v) == v.t \in {"int", "float"}

\* type(v).__name__, as it appears in Python's TypeError messages
TypeName(v) == IF v.t = "none" THEN "NoneType" ELSE v.t

\* a == b for the values above: numbers compare by value across int and
\* float (1 == 1.0), everything else only within its own type
PyEq(a, b) ==
    IF IsNum(a) /\ IsNum(b) THEN a.n * b.d = b.n * a.d
    ELSE a.t = b.t /\ a.s = b.s

\* a < b between two numbers
NumLess(a, b) == a.n * b.d < b.n * a.d

\* a + b between two numbers: an int only when both are ints
NumAdd(a, b) ==
    IF a.t = "int" /\ b.t = "int" THEN IntV(a.n + b.n)
    ELSE FloatV(a.n * b.d + b.n * a.d, a.d * b.d)

\* The strings of the model in code-point order, the order of Python's str
\* comparison.
StrOrder == <<"", "A", "AB", "B", "X", "Y", "s">>
StrRank(x) == CHOOSE j \in 1..Len(StrOrder) : StrOrder[j] = x
StrLess(x, y) == StrRank(x) < StrRank(y)

\* whether the text p occurs in the text s: p in s
Contains(s, p) == \E j \in 1..(Len(s) - Len(p) + 1) : SubSeq(s, j, j + Len(p) - 1) = p

\* s.startswith(p), s.endswith(p)
StartsWith(s, p) == Len(p) <= Len(s) /\ SubSeq(s, 1, Len(p)) = p
EndsWith(s, p) == Len(p) <= Len(s) /\ SubSeq(s, Len(s) - Len(p) + 1, Len(s)) = p

\* the digits of x, 0 <= x < 10000, as four decimals without trailing zeros
\* (at least one digit is kept)
RECURSIVE Decimals(_, _)
Decimals(x, width) ==
    IF width = 1 THEN ToString(x)
    ELSE IF x % 10 = 0 THEN Decimals(x \div 10, width - 1)
    ELSE Decimals(x \div 10, width - 1) \o ToString(x % 10)

\* str(v); the floats of the model have at most four decimals
PyStr(v) ==
    CASE v.t = "none" -> "None"
      [] v.t = "str" -> v.s
      [] v.t = "int" -> ToString(v.n)
      [] v.t = "float" ->
            LET scaled == (Abs(v.n) * 10000) \div v.d
            IN  (IF v.n < 0 THEN "-" ELSE "") \o ToString(scaled \div 10000) \o "."
                \o Decimals(scaled % 10000, 4)

----------------------------------------------------------------------------
(* Python dicts keep insertion order: a dict is a sequence of entries      *)
(* [k |-> key, v |-> value] with pairwise different keys.  A row is a dict *)
(* from column names to values, a table a sequence of rows, a table set a  *)
(* dict from source names to tables.                                       *)

Entry(key, val) == [k |-> key, v |-> val]

\* key in d
DHas(d, key) == \E j \in 1..Len(d) : d[j].k = key

DIdx(d, key) == CHOOSE j \in 1..Len(d) : d[j].k = key

\* d.get(key, default)
DGet(d, key, default) == IF DHas(d, key) THEN d[DIdx(d, key)].v ELSE default

\* d[key] = val: an existing key keeps its position, a new key goes last
DSet(d, key, val) ==
    IF DHas(d, key) THEN [d EXCEPT ![DIdx(d, key)].v = val]
    ELSE Append(d, Entry(key, val))

\* list(d.keys())
DKeys(d) == [j \in 1..Len(d) |-> d[j].k]

----------------------------------------------------------------------------
(* Exceptions and the outcome of an operator call.  exc = "" means the    *)
(* call returned; tables is then the table set after the call.  When the  *)
(* call raised, tables is the table set as the call left it.              *)

NoExc == [exc |-> "", msg |-> ""]
Exc(type, message) == [exc |-> type, msg |-> message]

Returns(tables) == [exc |-> "", msg |-> "", tables |-> tables]
Raises(type, message, tables) == [exc |-> type, msg |-> message, tables |-> tables]

\* config.get(key): a key the config does not hold, or holds as None, is Absent
Absent == "<absent>"
Falsy(x) == x = Absent \/ x = ""

----------------------------------------------------------------------------
(* Step configs.  Every config is a record with the same fields; a key the *)
(* config does not hold is Absent (an empty list or dict for columns,      *)
(* aggregations and mapping, None for value and False for descending: the  *)
(* defaults of their .get).                                                *)

NoConfig ==
    [type |-> Absent, source |-> Absent, columns |-> <<>>, aggregations |-> <<>>,
     left |-> Absent, right |-> Absent, on |-> Absent, how |-> Absent,
     output |-> Absent, mapping |-> <<>>, column |-> Absent, operator |-> Absent,
     value |-> NoneV, output_column |-> Absent, formula |-> Absent,
     pattern |-> Absent, descending |-> FALSE]

\* config.get(key, default) for a string-valued key
\* the default, whatever the config holds
CfgDefault(config, key, default) == default

CfgGet(config, key, default) == IF config[key] = Absent THEN default ELSE config[key]

TransformationError == "TransformationError"
TypeError == "TypeError"

----------------------------------------------------------------------------
(* GroupByTransformation.transform                                         *)

\* key = tuple(row.get(col, "") for col in columns)
GroupKey(row, columns) == [j \in 1..Len(columns) |-> DGet(row, columns[j], StrV(""))]

\* only the first grouping column compared
KeyEqFirst(a, b) == PyEq(a[1], b[1])

\* equality of two key tuples, as the dict `groups` decides it
KeyEq(a, b) == Len(a) = Len(b) /\ \A j \in 1..Len(a) : PyEq(a[j], b[j])

\* groups[key].append(row) on a defaultdict(list): a new key goes last
GroupsAppend(groups, key, row) ==
    IF \E j \in 1..Len(groups) : KeyEq(groups[j].k, key)
    THEN LET j == CHOOSE j \in 1..Len(groups) : KeyEq(groups[j].k, key)
         IN  [groups EXCEPT ![j].v = Append(@, row)]
    ELSE Append(groups, Entry(key, <<row>>))

\* the dict `groups` after the first n rows
RECURSIVE GroupRows(_, _, _)
GroupRows(rows, columns, n) ==
    IF n = 0 THEN <<>>
    ELSE GroupsAppend(GroupRows(rows, columns, n - 1), GroupKey(rows[n], columns), rows[n])

\* values = [row.get(col, 0) for row in rows]: nothing left out
AggValuesAll(rows, col) == [j \in 1..Len(rows) |-> DGet(rows[j], col, IntV(0))]

\* values = [row.get(col, 0) for row in rows if row.get(col) is not None]
RECURSIVE AggValues(_, _)
AggValues(rows, col) ==
    IF rows = <<>> THEN <<>>
    ELSE (IF DGet(Head(rows), col, NoneV).t # "none"
          THEN <<DGet(Head(rows), col, IntV(0))>> ELSE <<>>)
         \o AggValues(Tail(rows), col)

\* the outcome of an expression: its value, or the exception it raised
Val(v) == [exc |-> "", msg |-> "", val |-> v]
ValErr(type, message) == [exc |-> type, msg |-> message, val |-> NoneV]

\* sum(values) with the accumulator acc, which starts at int 0
RECURSIVE PySum(_, _)
PySum(acc, values) ==
    IF values = <<>> THEN Val(acc)
    ELSE IF IsNum(Head(values)) THEN PySum(NumAdd(acc, Head(values)), Tail(values))
    ELSE ValErr(TypeError, "unsupported operand type(s) for +: '" \o TypeName(acc)
                           \o "' and '" \o TypeName(Head(values)) \o "'")

\* whether a < b is defined, and its value
Comparable(a, b) == (IsNum(a) /\ IsNum(b)) \/ (a.t = "str" /\ b.t = "str")
PyLess(a, b) == IF IsNum(a) THEN NumLess(a, b) ELSE StrLess(a.s, b.s)

\* max(values): each next item is tried as item > cur
RECURSIVE PyMax(_, _)
PyMax(cur, rest) ==
    IF rest = <<>> THEN Val(cur)
    ELSE IF ~Comparable(Head(rest), cur)
    THEN ValErr(TypeError, "'>' not supported between instances of '"
                           \o TypeName(Head(rest)) \o "' and '" \o TypeName(cur) \o "'")
    ELSE PyMax(IF PyLess(cur, Head(rest)) THEN Head(rest) ELSE cur, Tail(rest))

\* the comparison the wrong way round: the largest value
PyMinInverted(cur, rest) == PyMax(cur, rest)

\* min(values): cur is the smallest so far, each next item is tried as item < cur
RECURSIVE PyMin(_, _)
PyMin(cur, rest) ==
    IF rest = <<>> THEN Val(cur)
    ELSE IF ~Comparable(Head(rest), cur)
    THEN ValErr(TypeError, "'<' not supported between instances of '"
                           \o TypeName(Head(rest)) \o "' and '" \o TypeName(cur) \o "'")
    ELSE PyMin(IF PyLess(Head(rest), cur) THEN Head(rest) ELSE cur, Tail(rest))

\* sum(values) / len(values) if values else 0
PyAvg(values) ==
    IF values = <<>> THEN Val(IntV(0))
    ELSE LET total == PySum(IntV(0), values)
         IN  IF total.exc # "" THEN total
             ELSE Val(FloatV(total.val.n, total.val.d * Len(values)))

\* the if/elif chain over agg_func
Aggregate(agg_func, values) ==
    CASE agg_func = "sum" -> PySum(IntV(0), values)
      [] agg_func = "avg" -> PyAvg(values)
      [] agg_func = "count" -> Val(IntV(Len(values)))
      [] agg_func = "min" ->
            IF values = <<>> THEN Val(IntV(0)) ELSE PyMin(Head(values), Tail(values))
      [] agg_func = "max" ->
            IF values = <<>> THEN Val(IntV(0)) ELSE PyMax(Head(values), Tail(values))
      [] agg_func = "first" -> IF values = <<>> THEN Val(NoneV) ELSE Val(Head(values))
      [] agg_func = "last" ->
            IF values = <<>> THEN Val(NoneV) ELSE Val(values[Len(values)])
      [] OTHER -> ValErr(TransformationError, "Unknown aggregation function: " \o agg_func)

\* for i, col in enumerate(columns): new_row[col] = key[i], after the first n columns
RECURSIVE KeyRow(_, _, _)
KeyRow(columns, key, n) ==
    IF n = 0 THEN <<>> ELSE DSet(KeyRow(columns, key, n - 1), columns[n], key[n])

\* for col, agg_func in aggregations.items(): new_row[col] = ..., from item n on
RECURSIVE ApplyAggregations(_, _, _, _)
ApplyAggregations(new_row, rows, aggregations, n) ==
    IF n > Len(aggregations) THEN Val(new_row)
    ELSE LET col == aggregations[n].k
             agg == Aggregate(aggregations[n].v, AggValues(rows, col))
         IN  IF agg.exc # "" THEN agg
             ELSE ApplyAggregations(DSet(new_row, col, agg.val), rows, aggregations, n + 1)

\* for key, rows in groups.items(): ... result.append(new_row), from group n on
RECURSIVE AggregateGroups(_, _, _, _, _)
AggregateGroups(acc, groups, columns, aggregations, n) ==
    IF n > Len(groups) THEN Val(acc)
    ELSE LET new_row == ApplyAggregations(KeyRow(columns, groups[n].k, Len(columns)),
                                          groups[n].v, aggregations, 1)
         IN  IF new_row.exc # "" THEN new_row
             ELSE AggregateGroups(Append(acc, new_row.val), groups, columns,
                                  aggregations, n + 1)

GroupByTransformation(tables, config) ==
    LET source == config.source
        columns == config.columns
        aggregations == config.aggregations
    IN  IF Falsy(source) \/ columns = <<>>
        THEN Raises(TransformationError, "group_by requires: source, columns", tables)
        ELSE IF ~DHas(tables, source)
        THEN Raises(TransformationError, "Source '" \o source \o "' not found", tables)
        ELSE LET rows == DGet(tables, source, <<>>)
                 groups == GroupRows(rows, columns, Len(rows))
                 out == AggregateGroups(<<>>, groups, columns, aggregations, 1)
             IN  IF out.exc # "" THEN Raises(out.exc, out.msg, tables)
                 ELSE Returns(DSet(tables, source, out.val))

----------------------------------------------------------------------------
(* JoinTransformation.transform                                            *)

\* right_index[key].append(row) on a defaultdict(list): a new key goes last
IndexAppend(index, key, row) ==
    IF \E j \in 1..Len(index) : PyEq(index[j].k, key)
    THEN LET j == CHOOSE j \in 1..Len(index) : PyEq(index[j].k, key)
         IN  [index EXCEPT ![j].v = Append(@, row)]
    ELSE Append(index, Entry(key, <<row>>))

\* right_index after the first n rows of right_data
RECURSIVE RightIndex(_, _, _)
RightIndex(right_data, on_column, n) ==
    IF n = 0 THEN <<>>
    ELSE IndexAppend(RightIndex(right_data, on_column, n - 1),
                     DGet(right_data[n], on_column, StrV("")), right_data[n])

\* at most one right row per key: the first one
IndexGetFirst(index, key) ==
    IF \E j \in 1..Len(index) : PyEq(index[j].k, key)
    THEN <<Head(index[CHOOSE j \in 1..Len(index) : PyEq(index[j].k, key)].v)>>
    ELSE <<>>

\* right_index.get(key, [])
IndexGet(index, key) ==
    IF \E j \in 1..Len(index) : PyEq(index[j].k, key)
    THEN index[CHOOSE j \in 1..Len(index) : PyEq(index[j].k, key)].v
    ELSE <<>>

\* new_key = k if k not in merged else f"right_{k}"
NewKey(merged, k) == IF ~DHas(merged, k) THEN k ELSE "right_" \o k

\* merged = {**left_row}, then the first n items of right_row copied in
RECURSIVE Merge(_, _, _, _)
Merge(left_row, right_row, on_column, n) ==
    IF n = 0 THEN left_row
    ELSE LET merged == Merge(left_row, right_row, on_column, n - 1)
             k == right_row[n].k
         IN  IF k # on_column THEN DSet(merged, NewKey(merged, k), right_row[n].v)
             ELSE merged

\* one merged row per row of right_rows
MergeAll(left_row, right_rows, on_column) ==
    [j \in 1..Len(right_rows) |->
        Merge(left_row, right_rows[j], on_column, Len(right_rows[j]))]

\* whether an unmatched left row is kept
KeepsLeft(how) == how \in {"left", "outer"}

\* whether the unmatched right rows are added
AddsRight(how) == how \in {"right", "outer"}

\* the loop over left_data after its first n rows: result and used_right_keys
RECURSIVE JoinLeft(_, _, _, _, _)
JoinLeft(left_data, right_index, on_column, how, n) ==
    IF n = 0 THEN [rows |-> <<>>, used |-> {}]
    ELSE LET prev == JoinLeft(left_data, right_index, on_column, how, n - 1)
             left_row == left_data[n]
             key == DGet(left_row, on_column, StrV(""))
             right_rows == IndexGet(right_index, key)
         IN  IF right_rows # <<>>
             THEN [rows |-> prev.rows \o MergeAll(left_row, right_rows, on_column),
                   used |-> prev.used \cup {key}]
             ELSE IF KeepsLeft(how)
             THEN [rows |-> Append(prev.rows, left_row), used |-> prev.used]
             ELSE prev

\* no test against used_right_keys: the rows of the first n keys of right_index
RECURSIVE AllRight(_, _, _)
AllRight(right_index, used, n) ==
    IF n = 0 THEN <<>> ELSE AllRight(right_index, used, n - 1) \o right_index[n].v

\* the rows of the first n keys of right_index that are not in used_right_keys
RECURSIVE UnmatchedRight(_, _, _)
UnmatchedRight(right_index, used, n) ==
    IF n = 0 THEN <<>>
    ELSE UnmatchedRight(right_index, used, n - 1)
         \o (IF \E u \in used : PyEq(u, right_index[n].k) THEN <<>>
             ELSE right_index[n].v)

JoinTransformation(tables, config) ==
    LET left_source == config.left
        right_source == config.right
        on_column == config.on
        how == CfgGet(config, "how", "inner")
        output_source == CfgGet(config, "output", left_source)
    IN  IF Falsy(left_source) \/ Falsy(right_source) \/ Falsy(on_column)
        THEN Raises(TransformationError, "join requires: left, right, on", tables)
        ELSE IF ~DHas(tables, left_source)
        THEN Raises(TransformationError,
                    "Left source '" \o left_source \o "' not found", tables)
        ELSE IF ~DHas(tables, right_source)
        THEN Raises(TransformationError,
                    "Right source '" \o right_source \o "' not found", tables)
        ELSE LET left_data == DGet(tables, left_source, <<>>)
                 right_data == DGet(tables, right_source, <<>>)
                 right_index == RightIndex(right_data, on_column, Len(right_data))
                 joined == JoinLeft(left_data, right_index, on_column, how, Len(left_data))
                 rows == IF AddsRight(how)
                         THEN joined.rows
                              \o UnmatchedRight(right_index, joined.used, Len(right_index))
                         ELSE joined.rows
             IN  Returns(DSet(tables, output_source, rows))

----------------------------------------------------------------------------
(* RenameTransformation.transform                                          *)

\* new_key = mapping.get(k, k)
NewName(mapping, k) == DGet(mapping, k, k)

\* only the columns the mapping names are taken over
RECURSIVE RenameRowMapped(_, _, _)
RenameRowMapped(row, mapping, n) ==
    IF n = 0 THEN <<>>
    ELSE IF DHas(mapping, row[n].k)
    THEN DSet(RenameRowMapped(row, mapping, n - 1), NewName(mapping, row[n].k), row[n].v)
    ELSE RenameRowMapped(row, mapping, n - 1)

\* new_row after the first n items of row
RECURSIVE RenameRow(_, _, _)
RenameRow(row, mapping, n) ==
    IF n = 0 THEN <<>>
    ELSE DSet(RenameRow(row, mapping, n - 1), NewName(mapping, row[n].k), row[n].v)

RenameTransformation(tables, config) ==
    LET source == config.source
        mapping == config.mapping
    IN  IF Falsy(source) \/ mapping = <<>>
        THEN Raises(TransformationError, "rename requires: source, mapping", tables)
        ELSE IF ~DHas(tables, source)
        THEN Raises(TransformationError, "Source '" \o source \o "' not found", tables)
        ELSE LET rows == DGet(tables, source, <<>>)
             IN  Returns(DSet(tables, source,
                              [j \in 1..Len(rows) |->
                                  RenameRow(rows[j], mapping, Len(rows[j]))]))

----------------------------------------------------------------------------
(* FilterTransformation.transform                                          *)

\* the outcome of matches(row_value): a truth value, or the exception it raised
Truth(b) == [exc |-> "", msg |-> "", val |-> b]
NoTruth(type, message) == [exc |-> type, msg |-> message, val |-> FALSE]

\* an ordering comparison row_value <op> value that Python does not define
NotSupported(op, a, b) ==
    NoTruth(TypeError, "'" \o op \o "' not supported between instances of '"
                       \o TypeName(a) \o "' and '" \o TypeName(b) \o "'")

\* row_value is None: the empty string is not taken for null
IsNoneOnly(row_value) == row_value.t = "none"

\* row_value is None or row_value == ""
IsNull(row_value) == row_value.t = "none" \/ PyEq(row_value, StrV(""))

\* matches(row_value): the if/elif chain over operator
Matches(operator, row_value, value) ==
    CASE operator = "eq" -> Truth(PyEq(row_value, value))
      [] operator = "ne" -> Truth(~PyEq(row_value, value))
      [] operator = "gt" ->
            IF Comparable(row_value, value) THEN Truth(PyLess(value, row_value))
            ELSE NotSupported(">", row_value, value)
      [] operator = "lt" ->
            IF Comparable(row_value, value) THEN Truth(PyLess(row_value, value))
            ELSE NotSupported("<", row_value, value)
      [] operator = "gte" ->
            IF Comparable(row_value, value) THEN Truth(~PyLess(row_value, value))
            ELSE NotSupported(">=", row_value, value)
      [] operator = "lte" ->
            IF Comparable(row_value, value) THEN Truth(~PyLess(value, row_value))
            ELSE NotSupported("<=", row_value, value)
      [] operator = "contains" -> Truth(Contains(PyStr(row_value), PyStr(value)))
      [] operator = "startswith" -> Truth(StartsWith(PyStr(row_value), PyStr(value)))
      [] operator = "endswith" -> Truth(EndsWith(PyStr(row_value), PyStr(value)))
      [] operator = "is_null" -> Truth(IsNull(row_value))
      [] operator = "not_null" -> Truth(~IsNull(row_value))
      [] OTHER -> NoTruth(TransformationError, "Unknown operator: " \o operator)

\* every row is kept, whatever matches says
KeepAll(acc, row, m) == Append(acc, row)

\* [row for row in ... if matches(...)]: the list after one more row, m its outcome
Keep(acc, row, m) == IF m.val THEN Append(acc, row) ELSE acc

\* the list comprehension over the first n rows: the rows kept, or the exception
\* of the first row whose matches raised
RECURSIVE FilterRows(_, _, _, _, _)
FilterRows(rows, column, operator, value, n) ==
    IF n = 0 THEN Val(<<>>)
    ELSE LET prev == FilterRows(rows, column, operator, value, n - 1)
             m == Matches(operator, DGet(rows[n], column, NoneV), value)
         IN  IF prev.exc # "" THEN prev
             ELSE IF m.exc # "" THEN ValErr(m.exc, m.msg)
             ELSE Val(Keep(prev.val, rows[n], m))

FilterTransformation(tables, config) ==
    LET source == config.source
        column == config.column
        operator == config.operator
        value == config.value
    IN  IF Falsy(source) \/ Falsy(column) \/ Falsy(operator)
        THEN Raises(TransformationError, "filter requires: source, column, operator", tables)
        ELSE IF ~DHas(tables, source)
        THEN Raises(TransformationError, "Source '" \o source \o "' not found", tables)
        ELSE LET rows == DGet(tables, source, <<>>)
                 out == FilterRows(rows, column, operator, value, Len(rows))
             IN  IF out.exc # "" THEN Raises(out.exc, out.msg, tables)
                 ELSE Returns(DSet(tables, source, out.val))

----------------------------------------------------------------------------
(* CalculateTransformation.transform: the text of the expression.  The     *)
(* formulas of the model are written with names, decimal numerals, blanks, *)
(* parentheses and the operators + - * / (two of them in a row only when   *)
(* the second is a sign: no ** and no //).                                 *)

ZeroDivisionError == "ZeroDivisionError"
ValueError == "ValueError"
NameError == "NameError"
SyntaxError == "SyntaxError"

Digits == {"0", "1", "2", "3", "4", "5", "6", "7", "8", "9"}

NameStart ==
    {"a", "b", "c", "d", "e", "f", "g", "h", "i", "j", "k", "l", "m", "n", "o", "p", "q",
     "r", "s", "t", "u", "v", "w", "x", "y", "z", "_",
     "A", "B", "C", "D", "E", "F", "G", "H", "I", "J", "K", "L", "M", "N", "O", "P", "Q",
     "R", "S", "T", "U", "V", "W", "X", "Y", "Z"}

OpChars == {"+", "-", "*", "/", "(", ")"}

\* s[n:]
From(s, n) == SubSeq(s, n + 1, Len(s))

\* s.replace(old, new): every occurrence of old, left to right, without overlap
RECURSIVE Replace(_, _, _)
Replace(s, old, new) ==
    IF old = "" THEN (IF s = "" THEN new ELSE new \o SubSeq(s, 1, 1) \o Replace(From(s, 1), old, new))
    ELSE IF Len(s) < Len(old) THEN s
    ELSE IF SubSeq(s, 1, Len(old)) = old THEN new \o Replace(From(s, Len(old)), old, new)
    ELSE SubSeq(s, 1, 1) \o Replace(From(s, 1), old, new)

\* the value of a run of digits read after the value acc
RECURSIVE DigitsValue(_, _)
DigitsValue(acc, s) ==
    IF s = "" THEN acc
    ELSE DigitsValue(10 * acc + (CHOOSE x \in 0..9 : ToString(x) = SubSeq(s, 1, 1)), From(s, 1))

\* 10 ** n
RECURSIVE Pow10(_)
Pow10(n) == IF n = 0 THEN 1 ELSE 10 * Pow10(n - 1)

\* a decimal numeral: digits, with at most one point among or next to them
IsNumeral(s) ==
    /\ \A j \in 1..Len(s) : SubSeq(s, j, j) \in Digits \cup {"."}
    /\ \E j \in 1..Len(s) : SubSeq(s, j, j) \in Digits
    /\ Cardinality({j \in 1..Len(s) : SubSeq(s, j, j) = "."}) <= 1

\* the value of a numeral: an int without a point, a float with one
NumeralValue(s) ==
    IF \A j \in 1..Len(s) : SubSeq(s, j, j) # "." THEN IntV(DigitsValue(0, s))
    ELSE LET point == CHOOSE j \in 1..Len(s) : SubSeq(s, j, j) = "."
         IN  FloatV(DigitsValue(0, SubSeq(s, 1, point - 1) \o From(s, point)),
                    Pow10(Len(s) - point))

\* float(val) for a number or a string; a string has to be a numeral with an
\* optional sign (the texts of the model are not among the other spellings float
\* accepts: exponents, blanks around the numeral, "nan", "inf")
FloatOf(val) ==
    IF IsNum(val) THEN Val(FloatV(val.n, val.d))
    ELSE IF val.t # "str"
    THEN ValErr(TypeError, "float() argument must be a string or a real number, not '"
                           \o TypeName(val) \o "'")
    ELSE LET signed == val.s # "" /\ SubSeq(val.s, 1, 1) \in {"+", "-"}
             digits == IF signed THEN From(val.s, 1) ELSE val.s
             x == NumeralValue(digits)
         IN  IF ~IsNumeral(digits)
             THEN ValErr(ValueError, "could not convert string to float: '" \o val.s \o "'")
             ELSE Val(FloatV(IF signed /\ SubSeq(val.s, 1, 1) = "-" THEN -x.n ELSE x.n, x.d))

\* the number of characters at the start of s that are in chars
RECURSIVE RunLen(_, _)
RunLen(s, chars) ==
    IF s = "" \/ SubSeq(s, 1, 1) \notin chars THEN 0 ELSE 1 + RunLen(From(s, 1), chars)

Token(type, text) == [t |-> type, s |-> text]

\* the tokens of an expression: numerals, names, operators; any other character
\* is a token that no expression can hold
RECURSIVE Lex(_)
Lex(s) ==
    IF s = "" THEN <<>>
    ELSE LET c == SubSeq(s, 1, 1)
             num == RunLen(s, Digits \cup {"."})
             name == RunLen(s, NameStart \cup Digits)
         IN  IF c = " " THEN Lex(From(s, 1))
             ELSE IF c \in OpChars THEN <<Token("op", c)>> \o Lex(From(s, 1))
             ELSE IF num > 0 THEN <<Token("num", SubSeq(s, 1, num))>> \o Lex(From(s, num))
             ELSE IF name > 0 THEN <<Token("name", SubSeq(s, 1, name))>> \o Lex(From(s, name))
             ELSE <<Token("bad", c)>> \o Lex(From(s, 1))

----------------------------------------------------------------------------
(* CalculateTransformation.transform: eval(expr, {"__builtins__": {}}, {}). *)
(* The expression is parsed as a whole first (a SyntaxError when it is not *)
(* an expression), then evaluated left to right; the first exception of    *)
(* the evaluation is the one raised.                                       *)

\* a - b, a * b between two numbers: an int only when both are ints
NumSub(a, b) ==
    IF a.t = "int" /\ b.t = "int" THEN IntV(a.n - b.n)
    ELSE FloatV(a.n * b.d - b.n * a.d, a.d * b.d)

NumMul(a, b) ==
    IF a.t = "int" /\ b.t = "int" THEN IntV(a.n * b.n) ELSE FloatV(a.n * b.n, a.d * b.d)

\* a / b: always a float, ZeroDivisionError for b == 0
NumDiv(a, b) ==
    IF b.n = 0
    THEN ValErr(ZeroDivisionError,
                IF a.t = "int" /\ b.t = "int" THEN "division by zero"
                ELSE "float division by zero")
    ELSE Val(FloatV(IF b.n < 0 THEN -(a.n * b.d) ELSE a.n * b.d, Abs(b.n) * a.d))

\* -a
NumNeg(a) == [a EXCEPT !.n = -a.n]

\* (), the empty tuple: the one value of an expression that is not a number
TupleV == [t |-> "tuple", n |-> 0, d |-> 1, s |-> ""]

\* a <op> b with an operand that is the empty tuple: () + () and () * int are (),
\* anything else is a TypeError (caught by the caller, its text is never seen)
TupleArith(op, a, b) ==
    IF \/ op = "+" /\ a = TupleV /\ b = TupleV
       \/ op = "*" /\ {a.t, b.t} = {"tuple", "int"}
    THEN Val(TupleV)
    ELSE ValErr(TypeError, "unsupported operand type(s) for " \o op \o ": '"
                           \o TypeName(a) \o "' and '" \o TypeName(b) \o "'")

\* a <op> b once both operands are evaluated: the left operand's exception comes
\* first, then the right one's, then the operator's own
Arith(op, a, b) ==
    IF a.exc # "" THEN a
    ELSE IF b.exc # "" THEN b
    ELSE IF ~IsNum(a.val) \/ ~IsNum(b.val) THEN TupleArith(op, a.val, b.val)
    ELSE CASE op = "+" -> Val(NumAdd(a.val, b.val))
           [] op = "-" -> Val(NumSub(a.val, b.val))
           [] op = "*" -> Val(NumMul(a.val, b.val))
           [] op = "/" -> NumDiv(a.val, b.val)

\* what the parser holds after an expression that ends before token pos: whether
\* the tokens so far are well formed, and the outcome of evaluating them
Parsed(out, pos) == [syn |-> TRUE, out |-> out, pos |-> pos]
NotParsed == [syn |-> FALSE, out |-> Val(NoneV), pos |-> 0]

IsOp(toks, pos, ops) == pos <= Len(toks) /\ toks[pos].t = "op" /\ toks[pos].s \in ops

RECURSIVE ParseExpr(_, _), ExprRest(_, _), ParseTerm(_, _), TermRest(_, _), ParseUnary(_, _)

\* a numeral, a name (which nothing defines: NameError), ( ) or ( expression )
ParseAtom(toks, pos) ==
    IF pos > Len(toks) THEN NotParsed
    ELSE IF toks[pos].t = "num"
    THEN (IF IsNumeral(toks[pos].s) THEN Parsed(Val(NumeralValue(toks[pos].s)), pos + 1)
          ELSE NotParsed)
    ELSE IF toks[pos].t = "name"
    THEN Parsed(ValErr(NameError, "name '" \o toks[pos].s \o "' is not defined"), pos + 1)
    ELSE IF IsOp(toks, pos, {"("}) /\ IsOp(toks, pos + 1, {")"})
    THEN Parsed(Val(TupleV), pos + 2)
    ELSE IF IsOp(toks, pos, {"("})
    THEN LET e == ParseExpr(toks, pos + 1)
         IN  IF e.syn /\ IsOp(toks, e.pos, {")"}) THEN Parsed(e.out, e.pos + 1)
             ELSE NotParsed
    ELSE NotParsed

\* + unary, - unary, or an atom
ParseUnary(toks, pos) ==
    IF IsOp(toks, pos, {"+", "-"})
    THEN LET u == ParseUnary(toks, pos + 1)
         IN  IF ~u.syn THEN NotParsed
             ELSE IF u.out.exc # "" THEN u
             ELSE IF ~IsNum(u.out.val)
             THEN Parsed(ValErr(TypeError, "bad operand type for unary " \o toks[pos].s
                                           \o ": '" \o TypeName(u.out.val) \o "'"), u.pos)
             ELSE IF toks[pos].s = "+" THEN u
             ELSE Parsed(Val(NumNeg(u.out.val)), u.pos)
    ELSE ParseAtom(toks, pos)

\* left, then any number of * unary and / unary
TermRest(toks, left) ==
    IF ~left.syn THEN NotParsed
    ELSE IF IsOp(toks, left.pos, {"*", "/"})
    THEN LET r == ParseUnary(toks, left.pos + 1)
         IN  IF ~r.syn THEN NotParsed
             ELSE TermRest(toks, Parsed(Arith(toks[left.pos].s, left.out, r.out), r.pos))
    ELSE left

ParseTerm(toks, pos) == TermRest(toks, ParseUnary(toks, pos))

\* left, then any number of + term and - term
ExprRest(toks, left) ==
    IF ~left.syn THEN NotParsed
    ELSE IF IsOp(toks, left.pos, {"+", "-"})
    THEN LET r == ParseTerm(toks, left.pos + 1)
         IN  IF ~r.syn THEN NotParsed
             ELSE ExprRest(toks, Parsed(Arith(toks[left.pos].s, left.out, r.out), r.pos))
    ELSE left

ParseExpr(toks, pos) == ExprRest(toks, ParseTerm(toks, pos))

\* eval(expr, {"__builtins__": {}}, {}); the text of a SyntaxError is the parser's
\* diagnosis, which is not told apart further here
Eval(expr) ==
    LET toks == Lex(expr)
        e == ParseExpr(toks, 1)
    IN  IF e.syn /\ e.pos = Len(toks) + 1 THEN e.out
        ELSE ValErr(SyntaxError, "invalid syntax (<string>, line 1)")

----------------------------------------------------------------------------
(* CalculateTransformation.transform                                       *)

\* round(x, 4) for a float x: the nearest multiple of 1/10000, a tie to the even one
Round4(x) ==
    LET q == (x.n * 10000) \div x.d
        r == (x.n * 10000) % x.d
    IN  FloatV(IF 2 * r > x.d \/ (2 * r = x.d /\ q % 2 = 1) THEN q + 1 ELSE q, 10000)

\* the text of the expression, or the exception that ended the substitution
Text(s) == [exc |-> "", msg |-> "", text |-> s]
NoText(type, message) == [exc |-> type, msg |-> message, text |-> ""]

\* for col in row.keys(): if col in expr: ... expr = expr.replace(col, str(float(val))),
\* after the first n columns of the row
RECURSIVE Substitute(_, _, _)
Substitute(row, formula, n) ==
    IF n = 0 THEN Text(formula)
    ELSE LET prev == Substitute(row, formula, n - 1)
             col == row[n].k
             val == IF row[n].v = NoneV THEN IntV(0) ELSE row[n].v
             number == FloatOf(val)
         IN  IF prev.exc # "" \/ ~Contains(prev.text, col) THEN prev
             ELSE IF number.exc # "" THEN NoText(number.exc, number.msg)
             ELSE Text(Replace(prev.text, col, PyStr(number.val)))

\* round(result_value, 4) if isinstance(result_value, float) else result_value,
\* for the outcome of eval
Rounded(result_value) ==
    IF result_value.exc # "" THEN result_value
    ELSE IF result_value.val.t = "float" THEN Val(Round4(result_value.val))
    ELSE result_value

\* the value of the expression after the substitution, or the exception that
\* ended the substitution
Evaluated(expr) ==
    IF expr.exc # "" THEN ValErr(expr.exc, expr.msg) ELSE Rounded(Eval(expr.text))

\* the try block of one row: the value of the expression, or its exception
RowValue(row, formula) == Evaluated(Substitute(row, formula, Len(row)))

\* except (ZeroDivisionError, ValueError, TypeError)
Caught == {ZeroDivisionError, ValueError, TypeError}

\* the rows so far with one more row, whose try block ended with `out`: new_row
\* holds the value, or None after a caught exception; any other exception leaves
\* the loop
WithRow(prev, row, output_column, out) ==
    IF prev.exc # "" THEN prev
    ELSE IF out.exc \in Caught
    THEN Val(Append(prev.val, DSet(row, output_column, NoneV)))
    ELSE IF out.exc # "" THEN ValErr(out.exc, out.msg)
    ELSE Val(Append(prev.val, DSet(row, output_column, out.val)))

\* the loop over the first n rows: the new rows, or the exception that the try
\* block of a row let through
RECURSIVE CalculateRows(_, _, _, _)
CalculateRows(rows, output_column, formula, n) ==
    IF n = 0 THEN Val(<<>>)
    ELSE WithRow(CalculateRows(rows, output_column, formula, n - 1), rows[n],
                 output_column, RowValue(rows[n], formula))

\* data[source] = result; return data, unless the loop was left by an exception
Stored(tables, source, out) ==
    IF out.exc # "" THEN Raises(out.exc, out.msg, tables)
    ELSE Returns(DSet(tables, source, out.val))

CalculateTransformation(tables, config) ==
    LET source == config.source
        output_column == config.output_column
        formula == config.formula
    IN  IF Falsy(source) \/ Falsy(output_column) \/ Falsy(formula)
        THEN Raises(TransformationError,
                    "calculate requires: source, output_column, formula", tables)
        ELSE IF ~DHas(tables, source)
        THEN Raises(TransformationError, "Source '" \o source \o "' not found", tables)
        ELSE Stored(tables, source,
                    CalculateRows(DGet(tables, source, <<>>), output_column, formula,
                                  Len(DGet(tables, source, <<>>))))

----------------------------------------------------------------------------
(* ExtractTransformation.transform: re.compile(pattern) and regex.search.  *)
(* The patterns of the model are written with literal characters, \d, the  *)
(* dot, groups in parentheses and the quantifiers ? + * (one per item);    *)
(* a group does not begin with a question mark.                            *)

Quantifiers == {"?", "+", "*"}

\* an item of a pattern: a literal, a digit class, a dot or a group (the g-th of
\* the pattern, holding items), with its quantifier ("1" when it has none)
Item(kind, c, g, items, q) == [kind |-> kind, c |-> c, g |-> g, items |-> items, q |-> q]

\* what the parser holds: the items read, the position it stopped at, the number
\* of groups opened so far, and the message of the re.error if there is one
Compiled(items, pos, n) == [err |-> "", items |-> items, pos |-> pos, n |-> n]
NotCompiled(message, pos) ==
    [err |-> message \o " at position " \o ToString(pos - 1), items |-> <<>>, pos |-> 0, n |-> 0]

\* the items of the pattern p from position pos up to a closing parenthesis or
\* the end of the pattern, n groups being opened before
RECURSIVE ParseItems(_, _, _)
ParseItems(p, pos, n) ==
    IF pos > Len(p) \/ SubSeq(p, pos, pos) = ")" THEN Compiled(<<>>, pos, n)
    ELSE LET c == SubSeq(p, pos, pos)
             group == ParseItems(p, pos + 1, n + 1)
             \* the atom, the position after it and the number of groups then
             atom == CASE c = "(" -> <<Item("group", "", n + 1, group.items, "1"),
                                       group.pos + 1, group.n>>
                       [] c = "\\" /\ SubSeq(p, pos + 1, pos + 1) = "d" ->
                             <<Item("digit", "", 0, <<>>, "1"), pos + 2, n>>
                       [] c = "\\" -> <<Item("lit", SubSeq(p, pos + 1, pos + 1), 0, <<>>, "1"),
                                        pos + 2, n>>
                       [] c = "." -> <<Item("any", "", 0, <<>>, "1"), pos + 1, n>>
                       [] OTHER -> <<Item("lit", c, 0, <<>>, "1"), pos + 1, n>>
             quantified == atom[2] <= Len(p) /\ SubSeq(p, atom[2], atom[2]) \in Quantifiers
             item == IF quantified THEN [atom[1] EXCEPT !.q = SubSeq(p, atom[2], atom[2])]
                     ELSE atom[1]
             rest == ParseItems(p, IF quantified THEN atom[2] + 1 ELSE atom[2], atom[3])
         IN  IF c \in Quantifiers THEN NotCompiled("nothing to repeat", pos)
             ELSE IF c = "(" /\ group.err # "" THEN group
             ELSE IF c = "(" /\ group.pos > Len(p)
             THEN NotCompiled("missing ), unterminated subpattern", pos)
             ELSE IF rest.err # "" THEN rest
             ELSE [rest EXCEPT !.items = <<item>> \o rest.items]

\* re.compile(pattern)
Compile(pattern) ==
    LET c == ParseItems(pattern, 1, 0)
    IN  IF c.err = "" /\ c.pos <= Len(pattern)
        THEN NotCompiled("unbalanced parenthesis", c.pos)
        ELSE c

\* a way to match: the position after the match and what group 1 holds then
NoGroup == [set |-> FALSE, text |-> ""]
Way(end, cap) == [end |-> end, cap |-> cap]

RECURSIVE MatchSeq(_, _, _, _), SeqAfter(_, _, _, _), MatchRep(_, _, _, _, _),
          RepAfter(_, _, _, _, _, _), MatchOnce(_, _, _, _)

\* the ways to match one occurrence of an item at pos, in the order of preference
MatchOnce(item, s, pos, cap) ==
    CASE item.kind = "group" ->
            LET ways == MatchSeq(item.items, s, pos, cap)
            IN  [j \in 1..Len(ways) |->
                    IF item.g = 1
                    THEN Way(ways[j].end, [set |-> TRUE, text |-> SubSeq(s, pos, ways[j].end - 1)])
                    ELSE ways[j]]
      [] item.kind = "lit" ->
            IF pos <= Len(s) /\ SubSeq(s, pos, pos) = item.c THEN <<Way(pos + 1, cap)>>
            ELSE <<>>
      [] item.kind = "digit" ->
            IF pos <= Len(s) /\ SubSeq(s, pos, pos) \in Digits THEN <<Way(pos + 1, cap)>>
            ELSE <<>>
      [] item.kind = "any" -> IF pos <= Len(s) THEN <<Way(pos + 1, cap)>> ELSE <<>>

\* the ways to go on repeating an item after each of the ways from the j-th on
\* (an occurrence that matched the empty string is the last one)
RepAfter(ways, item, s, pos, count, j) ==
    IF j > Len(ways) THEN <<>>
    ELSE (IF ways[j].end > pos \/ item.q \in {"1", "?"}
          THEN MatchRep(item, s, ways[j].end, ways[j].cap, count + 1)
          ELSE <<ways[j]>>)
         \o RepAfter(ways, item, s, pos, count, j + 1)

\* the ways to match an item with its quantifier at pos, count occurrences being
\* matched already: one more occurrence is preferred to stopping (greedy)
MatchRep(item, s, pos, cap, count) ==
    (IF item.q \in {"+", "*"} \/ count = 0
     THEN RepAfter(MatchOnce(item, s, pos, cap), item, s, pos, count, 1)
     ELSE <<>>)
    \o (IF count >= 1 \/ item.q \in {"?", "*"} THEN <<Way(pos, cap)>> ELSE <<>>)

\* the ways to match the rest of the items after each of the ways from the j-th on
SeqAfter(ways, items, s, j) ==
    IF j > Len(ways) THEN <<>>
    ELSE MatchSeq(items, s, ways[j].end, ways[j].cap) \o SeqAfter(ways, items, s, j + 1)

\* the ways to match a sequence of items at pos
MatchSeq(items, s, pos, cap) ==
    IF items = <<>> THEN <<Way(pos, cap)>>
    ELSE SeqAfter(MatchRep(Head(items), s, pos, cap, 0), Tail(items), s, 1)

\* regex.search(value): the preferred way at the leftmost position that has one
RECURSIVE Search(_, _, _)
Search(items, s, start) ==
    IF start > Len(s) + 1 THEN [found |-> FALSE, cap |-> NoGroup]
    ELSE LET ways == MatchSeq(items, s, start, NoGroup)
         IN  IF ways # <<>> THEN [found |-> TRUE, cap |-> ways[1].cap]
             ELSE Search(items, s, start + 1)

\* match.group(1) if match and match.groups() else value
Extracted(regex, value) ==
    LET match == Search(regex.items, value, 1)
    IN  IF match.found /\ regex.n > 0
        THEN (IF match.cap.set THEN StrV(match.cap.text) ELSE NoneV)
        ELSE StrV(value)

ExtractTransformation(tables, config) ==
    LET source == config.source
        column == config.column
        pattern == config.pattern
        output_column == config.output_column
        regex == Compile(pattern)
    IN  IF Falsy(source) \/ Falsy(column) \/ Falsy(pattern) \/ Falsy(output_column)
        THEN Raises(TransformationError,
                    "extract requires: source, column, pattern, output_column", tables)
        ELSE IF ~DHas(tables, source)
        THEN Raises(TransformationError, "Source '" \o source \o "' not found", tables)
        ELSE IF regex.err # ""
        THEN Raises(TransformationError, "Invalid regex pattern: " \o regex.err, tables)
        ELSE LET rows == DGet(tables, source, <<>>)
             IN  Returns(DSet(tables, source,
                              [j \in 1..Len(rows) |->
                                  DSet(rows[j], output_column,
                                       Extracted(regex, PyStr(DGet(rows[j], column, StrV("")))))]))

----------------------------------------------------------------------------
(* SortTransformation.transform                                            *)

\* the list as it is
NotReversed(rows) == rows

\* the list back to front
Rev(rows) == [j \in 1..Len(rows) |-> rows[Len(rows) + 1 - j]]

\* key=lambda x: x.get(column, "")
SortKey(row, column) == DGet(row, column, StrV(""))

\* a sorted list with one more row, which goes before the rows with its own key
InsertRowFirst(sorted, row, column) ==
    LET behind == {j \in 1..Len(sorted) :
                      ~PyLess(SortKey(sorted[j], column), SortKey(row, column))}
        at == IF behind = {} THEN Len(sorted) + 1
              ELSE CHOOSE j \in behind : \A m \in behind : j <= m
    IN  SubSeq(sorted, 1, at - 1) \o <<row>> \o SubSeq(sorted, at, Len(sorted))

\* a sorted list with one more row: the row goes behind every row whose key is
\* not greater than its own (the sort is stable)
InsertRow(sorted, row, column) ==
    LET behind == {j \in 1..Len(sorted) :
                      PyLess(SortKey(row, column), SortKey(sorted[j], column))}
        at == IF behind = {} THEN Len(sorted) + 1
              ELSE CHOOSE j \in behind : \A m \in behind : j <= m
    IN  SubSeq(sorted, 1, at - 1) \o <<row>> \o SubSeq(sorted, at, Len(sorted))

\* the first n rows in ascending order of their keys
RECURSIVE StableSort(_, _, _)
StableSort(rows, column, n) ==
    IF n = 0 THEN <<>> ELSE InsertRow(StableSort(rows, column, n - 1), rows[n], column)

\* the positions whose key cannot be compared with the key before it
Unordered(rows, column) ==
    {j \in 2..Len(rows) :
        ~Comparable(SortKey(rows[j], column), SortKey(rows[j - 1], column))}

\* sorted(rows, key=...): the sort compares each key with one before it, and the
\* first comparison that Python does not define raises (the keys of the model hold
\* no float next to an int, so the key's type is the type named in the message)
Sorted(rows, column) ==
    IF Unordered(rows, column) # {}
    THEN LET j == CHOOSE j \in Unordered(rows, column) :
                      \A m \in Unordered(rows, column) : j <= m
         IN  ValErr(TypeError, "'<' not supported between instances of '"
                               \o TypeName(SortKey(rows[j], column)) \o "' and '"
                               \o TypeName(SortKey(rows[j - 1], column)) \o "'")
    ELSE Val(StableSort(rows, column, Len(rows)))

SortTransformation(tables, config) ==
    LET source == config.source
        column == config.column
        descending == config.descending
    IN  IF Falsy(source) \/ Falsy(column)
        THEN Raises(TransformationError, "sort requires: source, column", tables)
        ELSE IF ~DHas(tables, source)
        THEN Raises(TransformationError, "Source '" \o source \o "' not found", tables)
        ELSE LET rows == DGet(tables, source, <<>>)
                 \* reverse=True: the list is reversed, sorted and reversed again
                 out == Sorted(IF descending THEN Rev(rows) ELSE rows, column)
             IN  IF out.exc # "" THEN Raises(out.exc, out.msg, tables)
                 ELSE Returns(DSet(tables, source,
                                   IF descending THEN Rev(out.val) ELSE out.val))

----------------------------------------------------------------------------
(* TransformationPipeline.run                                              *)

\* a registry that lacks the join operator
RegistryWithoutJoin == {"extract", "group_by", "rename", "filter", "calculate", "sort"}

\* the keys of the registry TRANSFORMATIONS
TRANSFORMATIONS == {"extract", "group_by", "join", "rename", "filter", "calculate", "sort"}

\* TRANSFORMATIONS[transform_type].transform(tables, config)
Transform(transform_type, tables, config) ==
    CASE transform_type = "group_by" -> GroupByTransformation(tables, config)
      [] transform_type = "join" -> JoinTransformation(tables, config)
      [] transform_type = "rename" -> RenameTransformation(tables, config)
      [] transform_type = "filter" -> FilterTransformation(tables, config)
      [] transform_type = "calculate" -> CalculateTransformation(tables, config)
      [] transform_type = "sort" -> SortTransformation(tables, config)
      [] transform_type = "extract" -> ExtractTransformation(tables, config)

\* the references of the two dict objects of a call
Caller == "caller"
Copied == "copy"

\* result = data: no copy, the run works on the caller's dict
DictAlias(ref) == ref

\* data.copy(): the reference of a new dict object
DictCopy(ref) == Copied

\* the list walked back to front
ReversedConfig(steps, n) == steps[Len(steps) - n]

\* the config the loop is at when i steps are finished: enumerate() goes
\* through the list front to back
CurrentConfig(steps, n) == steps[n + 1]

\* f"{transform_type}" in the messages: str(None) for a config without "type"
TypeText(config) == IF config.type = Absent THEN "None" ELSE config.type

\* the step numbered from 0: f"Transformation {i} ..."
WrappedMessage0(n, config, message) ==
    "Transformation " \o ToString(n) \o " (" \o TypeText(config) \o ") failed: " \o message

\* f"Transformation {i+1} ({transform_type}) failed: {e}"
WrappedMessage(n, config, message) ==
    "Transformation " \o ToString(n + 1) \o " (" \o TypeText(config) \o ") failed: " \o message

\* no except clause: the operator's exception leaves run as it is
Unwrapped(n, config, out) == Exc(out.exc, out.msg)

\* the exception that leaves run when the transform of step n raised `out`:
\* a TransformationError as it is, anything else wrapped
Propagated(n, config, out) ==
    IF out.exc = TransformationError THEN Exc(TransformationError, out.msg)
    ELSE Exc(TransformationError, WrappedMessage(n, config, out.msg))

\* result = data.copy()
Copy ==
    /\ status = "ready"
    /\ result' = DictCopy(data)
    /\ heap' = [r \in DOMAIN heap \cup {result'} |->
                   IF r = result' THEN heap[data] ELSE heap[r]]
    /\ status' = "running"
    /\ UNCHANGED <<data, transformations, i, error, input, calls>>
    /\ UNCHANGED appVars

\* if transform_type not in TRANSFORMATIONS: raise TransformationError(...)
StepUnknownType ==
    /\ status = "running"
    /\ i < Len(transformations)
    /\ LET config == CurrentConfig(transformations, i)
       IN  /\ config.type \notin TRANSFORMATIONS
           /\ error' = Exc(TransformationError,
                           "Unknown transformation type: " \o TypeText(config))
    /\ status' = "raised"
    /\ UNCHANGED <<heap, data, result, transformations, i, input, calls>>
    /\ UNCHANGED appVars

\* result = transformation.transform(result, config), which returned
StepReturns ==
    /\ status = "running"
    /\ i < Len(transformations)
    /\ LET config == CurrentConfig(transformations, i)
       IN  /\ config.type \in TRANSFORMATIONS
           /\ \E out \in {Transform(config.type, heap[result], config)} :
                  /\ out.exc = ""
                  /\ heap' = [heap EXCEPT ![result] = out.tables]
    /\ i' = i + 1
    /\ calls' = Append(calls, i)
    /\ UNCHANGED <<data, result, transformations, status, error, input>>
    /\ UNCHANGED appVars

\* the transform raised: except TransformationError: raise / except Exception as e: raise ...
StepRaises ==
    /\ status = "running"
    /\ i < Len(transformations)
    /\ LET config == CurrentConfig(transformations, i)
       IN  /\ config.type \in TRANSFORMATIONS
           /\ \E out \in {Transform(config.type, heap[result], config)} :
                  /\ out.exc # ""
                  /\ heap' = [heap EXCEPT ![result] = out.tables]
                  /\ error' = Propagated(i, config, out)
    /\ status' = "raised"
    /\ calls' = Append(calls, i)
    /\ UNCHANGED <<data, result, transformations, i, input>>
    /\ UNCHANGED appVars

\* return result
Return ==
    /\ status = "running"
    /\ i = Len(transformations)
    /\ status' = "returned"
    /\ UNCHANGED <<heap, data, result, transformations, i, error, input, calls>>
    /\ UNCHANGED appVars

Next == Copy \/ StepUnknownType \/ StepReturns \/ StepRaises \/ Return

----------------------------------------------------------------------------
(* The calls explored.                                                     *)

MaxSteps == 2       \* longest pipeline
MaxRows == 3        \* longest table handed to a single group_by call
MaxJoinRows == 2    \* longest table handed to a single join call

\* all tables of at most n rows drawn from the set `rows`
TablesOf(rows, n) == UNION {[1..m -> rows] : m \in 0..n}

Row2(k, v) == <<Entry("k", k), Entry("v", v)>>

GroupByConfig(source, columns, aggregations) ==
    [NoConfig EXCEPT !.type = "group_by", !.source = source, !.columns = columns,
                     !.aggregations = aggregations]

JoinConfig(left, right, on, how, output) ==
    [NoConfig EXCEPT !.type = "join", !.left = left, !.right = right, !.on = on,
                     !.how = how, !.output = output]

\* the tables of a pipeline's input
PipelineTables ==
    { <<>>,
      <<Row2(StrV("A"), IntV(1)), Row2(StrV("B"), IntV(2)), Row2(StrV("A"), IntV(2))>>,
      <<Row2(StrV("B"), IntV(1)), Row2(StrV("A"), StrV("s"))>> }

PipelineInputs ==
    {<<Entry("a", x), Entry("b", y)>> : x \in PipelineTables, y \in PipelineTables}
    \cup {<<Entry("a", x)>> : x \in PipelineTables}

\* the step configs a pipeline is made of
StepConfigs ==
    { GroupByConfig("a", <<"k">>, <<Entry("v", "sum")>>),
      GroupByConfig("a", <<"k">>, <<Entry("v", "count")>>),
      GroupByConfig("b", <<"k">>, <<Entry("v", "first")>>),
      GroupByConfig("a", <<"k">>, <<Entry("v", "median")>>),
      GroupByConfig("a", <<>>, <<>>),
      JoinConfig("a", "b", "k", Absent, Absent),
      JoinConfig("a", "b", "k", "left", "c"),
      JoinConfig("b", "a", "k", "outer", Absent),
      [NoConfig EXCEPT !.type = "pivot", !.source = "a"],
      [NoConfig EXCEPT !.source = "a"] }

Pipelines == UNION {[1..m -> StepConfigs] : m \in 0..MaxSteps}

\* a caller holds a table set and a pipeline and has not called run yet
Init ==
    /\ data = Caller
    /\ \E tables \in PipelineInputs :
          /\ heap = [r \in {Caller} |-> tables]
          /\ input = tables
    /\ transformations \in Pipelines
    /\ result = ""
    /\ i = 0
    /\ status = "ready"
    /\ error = NoExc
    /\ calls = <<>>
    /\ AppIdle

Spec == Init /\ [][Next]_vars

----------------------------------------------------------------------------
(* A single operator called on a table set, as a caller of                 *)
(* transform(data, config) sees it: the call works on the caller's dict.   *)

\* transformation.transform(data, config) called directly
Call(transform_type) ==
    /\ status = "ready"
    /\ \E out \in {Transform(transform_type, heap[data], transformations[1])} :
           /\ heap' = [heap EXCEPT ![data] = out.tables]
           /\ status' = IF out.exc = "" THEN "returned" ELSE "raised"
           /\ result' = IF out.exc = "" THEN data ELSE ""
           /\ error' = Exc(out.exc, out.msg)
    /\ calls' = <<0>>
    /\ UNCHANGED <<data, transformations, i, input>>
    /\ UNCHANGED appVars

CallInit(tables, configs) ==
    /\ data = Caller
    /\ \E t \in tables :
          /\ heap = [r \in {Caller} |-> t]
          /\ input = t
    /\ \E config \in configs : transformations = <<config>>
    /\ result = ""
    /\ i = 0
    /\ status = "ready"
    /\ error = NoExc
    /\ calls = <<>>
    /\ AppIdle

\* a further direct call, on the table set the call before returned
CallNext(transform_type) ==
    /\ status = "returned"
    /\ Len(calls) < Len(transformations)
    /\ \E out \in {Transform(transform_type, heap[data], transformations[Len(calls) + 1])} :
           /\ heap' = [heap EXCEPT ![data] = out.tables]
           /\ status' = IF out.exc = "" THEN "returned" ELSE "raised"
           /\ result' = IF out.exc = "" THEN data ELSE ""
           /\ error' = Exc(out.exc, out.msg)
    /\ calls' = Append(calls, Len(calls))
    /\ UNCHANGED <<data, transformations, i, input>>
    /\ UNCHANGED appVars

\* a caller holds a table set and the configs of the calls it is going to make
CallsInit(tables, configs) ==
    /\ data = Caller
    /\ \E t \in tables :
          /\ heap = [r \in {Caller} |-> t]
          /\ input = t
    /\ transformations \in configs
    /\ result = ""
    /\ i = 0
    /\ status = "ready"
    /\ error = NoExc
    /\ calls = <<>>
    /\ AppIdle

\* group_by: rows with and without the columns k, g and v
GroupByRows ==
    { <<>>,
      <<Entry("v", IntV(2))>>,
      <<Entry("k", StrV("")), Entry("v", IntV(1))>>,
      <<Entry("k", NoneV), Entry("v", IntV(1))>>,
      <<Entry("k", StrV("A")), Entry("v", IntV(1))>>,
      <<Entry("k", StrV("A")), Entry("v", IntV(2))>>,
      <<Entry("k", StrV("A")), Entry("v", NoneV)>>,
      <<Entry("k", StrV("A")), Entry("g", StrV("X")), Entry("v", IntV(2))>> }

AggFuncs == {"sum", "avg", "count", "min", "max", "first", "last"}

GroupByConfigs ==
    {GroupByConfig("a", <<"k">>, <<Entry("v", f)>>) : f \in AggFuncs \cup {"median"}}
    \cup { GroupByConfig("a", <<"k", "g">>, <<Entry("v", "count")>>),
           GroupByConfig("a", <<"k", "g">>, <<>>),
           GroupByConfig("a", <<"k">>, <<Entry("k", "count"), Entry("v", "last")>>),
           GroupByConfig("b", <<"k">>, <<>>),
           GroupByConfig(Absent, <<"k">>, <<>>),
           GroupByConfig("a", <<>>, <<Entry("v", "sum")>>) }

GroupByInit ==
    CallInit({<<Entry("a", t)>> : t \in TablesOf(GroupByRows, MaxRows)}, GroupByConfigs)

CallGroupBy == Call("group_by")

SpecGroupBy == GroupByInit /\ [][CallGroupBy]_vars

\* join: left rows carry v = 1, right rows v = 2 and w = 3; one left row also
\* has a column right_v, the name a colliding right column v is stored under
KeyColumn(keys) == {<<>>} \cup {<<Entry("k", StrV(x))>> : x \in keys}

LeftRows ==
    {key \o <<Entry("v", IntV(1))>> : key \in KeyColumn({"", "A", "B"})}
    \cup {<<Entry("k", StrV("A")), Entry("v", IntV(1)), Entry("right_v", IntV(9))>>}
RightRows ==
    {<<Entry("v", IntV(2))>> \o key \o <<Entry("w", IntV(3))>> : key \in KeyColumn({"", "A"})}

JoinConfigs ==
    {JoinConfig("a", "b", "k", how, Absent) : how \in {Absent, "inner", "left", "right", "outer"}}
    \cup {JoinConfig("a", "b", "k", how, "c") : how \in {"inner", "outer"}}
    \cup { JoinConfig("a", "z", "k", "left", Absent),
           JoinConfig("z", "b", "k", "left", Absent),
           JoinConfig("a", "b", Absent, "left", Absent) }

JoinInit ==
    CallInit({<<Entry("a", x), Entry("b", y)>> :
                 x \in TablesOf(LeftRows, MaxJoinRows), y \in TablesOf(RightRows, MaxJoinRows)},
             JoinConfigs)

CallJoin == Call("join")

SpecJoin == JoinInit /\ [][CallJoin]_vars

\* rename: rows over the columns a and b, mappings from them and from a column x
\* that no row has, onto a, b and x; one call, or two calls one after the other
MaxRenameRows == 2  \* longest table handed to a rename call

RenameRows ==
    { <<>>,
      <<Entry("a", IntV(1))>>,
      <<Entry("a", IntV(1)), Entry("b", IntV(2))>>,
      <<Entry("b", IntV(2)), Entry("a", IntV(1))>> }

ColumnNames == {"a", "b", "x"}

RenameMappings ==
    {<<>>}
    \cup {<<Entry(k, t)>> : k \in ColumnNames, t \in ColumnNames}
    \cup {<<Entry("a", t), Entry("b", u)>> : t \in ColumnNames, u \in ColumnNames}

RenameConfig(source, mapping) ==
    [NoConfig EXCEPT !.type = "rename", !.source = source, !.mapping = mapping]

RenameCalls ==
    {<<RenameConfig("a", m)>> : m \in RenameMappings}
    \cup {<<RenameConfig("a", m), RenameConfig("a", w)>> :
              m \in RenameMappings, w \in RenameMappings}
    \cup { <<RenameConfig("z", <<Entry("a", "x")>>)>>,
           <<RenameConfig(Absent, <<Entry("a", "x")>>)>> }

RenameInit ==
    CallsInit({<<Entry("a", t)>> : t \in TablesOf(RenameRows, MaxRenameRows)}, RenameCalls)

CallRename == Call("rename") \/ CallNext("rename")

SpecRename == RenameInit /\ [][CallRename]_vars

\* filter: rows with and without the column v, whose value is null, a string
\* or a number; a config without "value" holds None for it
MaxFilterRows == 2  \* longest table handed to a filter call

FilterTableRows ==
    { <<>>,
      <<Entry("v", NoneV)>>,
      <<Entry("v", StrV(""))>>,
      <<Entry("v", StrV("A"))>>,
      <<Entry("v", StrV("AB")), Entry("w", IntV(1))>>,
      <<Entry("v", IntV(1))>>,
      <<Entry("v", IntV(2))>>,
      <<Entry("v", IntV(1)), Entry("w", IntV(2))>> }

FilterOperators ==
    {"eq", "ne", "gt", "lt", "gte", "lte", "contains", "startswith", "endswith",
     "is_null", "not_null"}

FilterValues == {NoneV, IntV(1), StrV("A"), StrV("B"), StrV("")}

FilterConfig(source, column, operator, value) ==
    [NoConfig EXCEPT !.type = "filter", !.source = source, !.column = column,
                     !.operator = operator, !.value = value]

FilterConfigs ==
    {FilterConfig("a", "v", operator, value) :
        operator \in FilterOperators \cup {"between"}, value \in FilterValues}
    \cup { FilterConfig("a", "v", Absent, IntV(1)),
           FilterConfig("a", Absent, "eq", IntV(1)),
           FilterConfig("z", "v", "eq", IntV(1)) }

FilterInit ==
    CallInit({<<Entry("a", t)>> : t \in TablesOf(FilterTableRows, MaxFilterRows)},
             FilterConfigs)

CallFilter == Call("filter")

SpecFilter == FilterInit /\ [][CallFilter]_vars

\* calculate: a pipeline whose first step is a calculate step, run on rows with
\* and without the columns cost and clicks, whose values are numbers, null or text,
\* some with a column c as well
MaxCalculateRows == 2  \* longest table handed to a pipeline that calculates

CalculateTableRows ==
    { <<Entry("cost", IntV(100)), Entry("clicks", IntV(8))>>,
      <<Entry("clicks", IntV(3)), Entry("cost", FloatV(1, 2))>>,
      <<Entry("cost", IntV(100)), Entry("clicks", IntV(0))>>,
      <<Entry("cost", IntV(100)), Entry("clicks", NoneV)>>,
      <<Entry("cost", NoneV), Entry("clicks", IntV(8))>>,
      <<Entry("cost", StrV("A")), Entry("clicks", IntV(8))>>,
      <<Entry("cost", StrV("A"))>>,
      <<Entry("cost", IntV(100))>>,
      <<Entry("c", StrV("A")), Entry("cost", IntV(100)), Entry("clicks", IntV(8))>>,
      <<Entry("c", IntV(5)), Entry("cost", IntV(100)), Entry("clicks", IntV(8))>> }

CalculateConfig(source, output_column, formula) ==
    [NoConfig EXCEPT !.type = "calculate", !.source = source,
                     !.output_column = output_column, !.formula = formula]

CalculateFormulas ==
    {"cost / clicks", "cost / 0", "cost + clicks", "(cost - 2.5) * -clicks", "cost /",
     "()", "cost * ()"}

CalculateConfigs ==
    {CalculateConfig("a", "cpa", formula) : formula \in CalculateFormulas}
    \cup { CalculateConfig("a", "cost", "cost / clicks"),
           CalculateConfig("z", "cpa", "cost / clicks"),
           CalculateConfig("a", Absent, "cost / clicks"),
           CalculateConfig("a", "cpa", Absent) }

\* the steps that follow a calculate step
NextSteps ==
    { CalculateConfig("a", "double", "cpa * 2"),
      [NoConfig EXCEPT !.type = "filter", !.source = "a", !.column = "cpa",
                       !.operator = "not_null"],
      [NoConfig EXCEPT !.type = "pivot", !.source = "a"] }

CalculatePipelines ==
    {<<config>> : config \in CalculateConfigs}
    \cup {<<config, next>> : config \in CalculateConfigs, next \in NextSteps}

CalculateInit ==
    CallsInit({<<Entry("a", t)>> : t \in TablesOf(CalculateTableRows, MaxCalculateRows)},
              CalculatePipelines)

SpecCalculate == CalculateInit /\ [][Next]_vars

\* sort: rows told apart by k, with a number, a text or null in v or without v;
\* one call, or an ascending and a descending call one after the other
MaxSortRows == 3  \* longest table handed to a sort call

SortRows ==
    { Row2(StrV("A"), IntV(1)), Row2(StrV("B"), IntV(1)), Row2(StrV("A"), IntV(2)),
      Row2(StrV("B"), IntV(3)), Row2(StrV("A"), StrV("B")), Row2(StrV("B"), StrV("A")),
      Row2(StrV("A"), NoneV), <<Entry("k", StrV("B"))>> }

SortConfig(source, column, descending) ==
    [NoConfig EXCEPT !.type = "sort", !.source = source, !.column = column,
                     !.descending = descending]

SortCalls ==
    { <<SortConfig("a", "v", FALSE)>>, <<SortConfig("a", "v", TRUE)>>,
      <<SortConfig("a", "v", FALSE), SortConfig("a", "v", TRUE)>>,
      <<SortConfig("a", "v", TRUE), SortConfig("a", "v", FALSE)>>,
      <<SortConfig("a", "k", TRUE)>>,
      <<SortConfig("z", "v", FALSE)>>, <<SortConfig("a", Absent, FALSE)>> }

SortInit == CallsInit({<<Entry("a", t)>> : t \in TablesOf(SortRows, MaxSortRows)}, SortCalls)

CallSort == Call("sort") \/ CallNext("sort")

SpecSort == SortInit /\ [][CallSort]_vars

\* extract: rows with a text, a number or null in the column name or without it,
\* patterns with and without a group, one of them with a group that need not
\* take part in a match, and a pattern that does not compile
MaxExtractRows == 2  \* longest table handed to an extract call

ExtractRows ==
    { <<Entry("name", StrV("cid12"))>>, <<Entry("name", StrV("ab")), Entry("out", IntV(1))>>,
      <<Entry("name", StrV("b"))>>, <<Entry("name", IntV(12)), Entry("v", IntV(1))>>,
      <<Entry("name", NoneV)>>, <<Entry("v", IntV(1))>> }

ExtractConfig(source, column, pattern, output_column) ==
    [NoConfig EXCEPT !.type = "extract", !.source = source, !.column = column,
                     !.pattern = pattern, !.output_column = output_column]

ExtractPatterns == {"cid(\\d+)", "(a)?b", "a(b)", "\\d+", "(\\d)(\\d)", "(.*)", "("}

ExtractConfigs ==
    {ExtractConfig("a", "name", pattern, "out") : pattern \in ExtractPatterns}
    \cup { ExtractConfig("a", "name", "(\\d+)", "name"),
           ExtractConfig("z", "name", "(a)", "out"),
           ExtractConfig("a", "name", Absent, "out"),
           ExtractConfig("a", "name", "(a)", Absent) }

ExtractInit ==
    CallInit({<<Entry("a", t)>> : t \in TablesOf(ExtractRows, MaxExtractRows)}, ExtractConfigs)

CallExtract == Call("extract")

SpecExtract == ExtractInit /\ [][CallExtract]_vars

\* every operator: one call of each of the seven, on table sets with the keys a
\* and b and, in some, a key c
MaxOperatorRows == 2  \* longest table handed to a call of any of the operators

OperatorRows ==
    {Row2(StrV("A"), IntV(1)), Row2(StrV("B"), IntV(2)), Row2(StrV("A"), IntV(2))}

OperatorTables ==
    LET tables == TablesOf(OperatorRows, MaxOperatorRows)
    IN  {<<Entry("a", x), Entry("b", y)>> : x \in tables, y \in tables}
        \cup {<<Entry("a", x), Entry("b", y), Entry("c", <<Row2(StrV("B"), IntV(2))>>)>> :
                 x \in tables, y \in tables}

OperatorConfigs ==
    UNION { { ExtractConfig(source, "k", "(A)", "x"),
              ExtractConfig(source, "k", "(", "x"),
              GroupByConfig(source, <<"k">>, <<Entry("v", "sum")>>),
              GroupByConfig(source, <<>>, <<>>),
              RenameConfig(source, <<Entry("k", "x")>>),
              FilterConfig(source, "v", "eq", IntV(1)),
              FilterConfig(source, "v", Absent, IntV(1)),
              FilterConfig(source, "v", "eq", NoneV),
              FilterConfig(source, "v", "is_null", NoneV),
              CalculateConfig(source, "w", "v * 2"),
              CalculateConfig(source, "w", "k * 2"),
              CalculateConfig(source, "w", "v * w"),
              SortConfig(source, "v", TRUE),
              SortConfig(source, Absent, FALSE),
              ExtractConfig(source, Absent, "(A)", "x"),
              RenameConfig(source, <<>>),
              CalculateConfig(source, Absent, "v * 2") } : source \in {"a", "b", "z"} }
    \cup {JoinConfig("a", "b", "k", how, output) :
             how \in {Absent, "outer"}, output \in {Absent, "a", "b", "c"}}
    \cup { JoinConfig("b", "a", "k", "left", Absent),
           JoinConfig("a", "z", "k", Absent, "c"),
           JoinConfig("z", "b", "k", Absent, Absent),
           JoinConfig("a", "b", Absent, Absent, "c"),
           JoinConfig(Absent, "z", "k", Absent, "c"),
           SortConfig(Absent, "v", FALSE) }

OperatorsInit == CallInit(OperatorTables, OperatorConfigs)

\* TRANSFORMATIONS[type]().transform(data, config)
CallOperator == \E transform_type \in TRANSFORMATIONS :
                    /\ transformations[1].type = transform_type
                    /\ Call(transform_type)

SpecOperators == OperatorsInit /\ [][CallOperator]_vars

----------------------------------------------------------------------------
(* Properties of TransformationPipeline.run, checked under Spec.          *)

\* the seven operator types
OperatorTypes == {"extract", "group_by", "join", "rename", "filter", "calculate", "sort"}

\* one step's operator applied to a table set (a step of no known type leaves it)
Applied(tables, config) ==
    IF config.type \in OperatorTypes THEN Transform(config.type, tables, config).tables
    ELSE tables

\* the steps' operators composed left to right: the table set after the first n steps
RECURSIVE Composition(_, _, _)
Composition(steps, tables, n) ==
    IF n = 0 THEN tables ELSE Applied(Composition(steps, tables, n - 1), steps[n])

\* whether a step fails on a table set
Fails(tables, config) ==
    \/ config.type \notin OperatorTypes
    \/ config.type \in OperatorTypes /\ Transform(config.type, tables, config).exc # ""

\* the 1-based position of the first step that fails when the steps are applied
\* one after the other, 0 when none fails
RECURSIVE FirstFailure(_, _, _)
FirstFailure(steps, tables, n) ==
    IF n > Len(steps) THEN 0
    ELSE IF Fails(tables, steps[n]) THEN n
    ELSE FirstFailure(steps, Applied(tables, steps[n]), n + 1)

Terminated == status \in {"returned", "raised"}

\* C1: run applies the steps in list order, each step on the table set the step
\* before it produced: while it runs, its table set is the left-to-right composition
\* of the finished steps applied to the input, and what it returns is the
\* composition of all steps (the input itself for the empty list).
C1_RunIsComposition ==
    /\ status = "running" => heap[result] = Composition(transformations, input, i)
    /\ status = "returned" =>
          /\ i = Len(transformations)
          /\ heap[result] = Composition(transformations, input, Len(transformations))

\* C1 witness: a run of two steps returned, and the two steps in the other order
\* would have produced another table set.
C1_Witness ==
    /\ status = "returned"
    /\ Len(transformations) = 2
    /\ heap[result] # input
    /\ heap[result] # Composition(<<transformations[2], transformations[1]>>, input, 2)

\* C2: when step k is the first step that raises, run ends at step k with one
\* TransformationError: no later step is called, nothing is returned, and a run
\* that raised does nothing more.
C2_RaiseIsTerminal ==
    LET k == FirstFailure(transformations, input, 1)
    IN  /\ k # 0 => status # "returned" /\ i < k
        /\ status = "raised" =>
              /\ k = i + 1
              /\ error.exc = TransformationError
              /\ \A j \in 1..Len(calls) : calls[j] < k
              /\ ~ENABLED Next
        /\ status # "raised" => error = NoExc

\* C2 witness: the first of two steps raised an exception that is no
\* TransformationError, and the second step was never called.
C2_Witness ==
    /\ status = "raised"
    /\ Len(transformations) = 2
    /\ calls = <<0>>
    /\ Transform(transformations[1].type, input, transformations[1]).exc = TypeError

\* C3: the table set the caller passed in is, at every moment of the call and after
\* it returned or raised, what it was when the call started.
C3_CallerTablesUnchanged == heap[data] = input

\* C3 witness: a run returned a table set that differs from the caller's, which the
\* caller still holds.
C3_Witness ==
    /\ status = "returned"
    /\ result # data
    /\ heap[result] # input

\* C4: a TransformationError of the operator leaves run with the operator's message;
\* any other exception of the step at 0-based index i leaves run as a
\* TransformationError with the message "Transformation {i+1} ({type}) failed: {message}".
C4_ErrorMessage ==
    (status = "raised" /\ i < Len(transformations)
        /\ transformations[i + 1].type \in {"group_by", "join"}) =>
        LET config == transformations[i + 1]
            out == Transform(config.type, Composition(transformations, input, i), config)
        IN  /\ error.exc = TransformationError
            /\ out.exc = TransformationError => error.msg = out.msg
            /\ out.exc # TransformationError =>
                  error.msg = "Transformation " \o ToString(i + 1) \o " (" \o config.type
                              \o ") failed: " \o out.msg

\* C4 witness: the second step, a group_by, raised a TypeError, which left run as
\* step 2's error.
C4_Witness ==
    /\ status = "raised"
    /\ i = 1
    /\ error.msg = "Transformation 2 (group_by) failed: "
                   \o "unsupported operand type(s) for +: 'int' and 'str'"

\* C5: a run raises an error containing "Unknown transformation type" exactly when
\* the step it has reached is of none of the seven types, at whatever position that
\* step is; the steps before it have been called by then, so the type is looked at
\* when the step is reached and not before the run starts.
C5_UnknownType ==
    LET k == FirstFailure(transformations, input, 1)
    IN  /\ status = "raised" =>
              /\ i < Len(transformations)
              /\ Contains(error.msg, "Unknown transformation type")
                    <=> transformations[i + 1].type \notin OperatorTypes
        /\ (Terminated /\ k # 0 /\ transformations[k].type \notin OperatorTypes) =>
              /\ status = "raised"
              /\ error.exc = TransformationError
              /\ Contains(error.msg, "Unknown transformation type")
              /\ calls = [j \in 1..(k - 1) |-> j - 1]

\* C5 witness: the second step is of an unknown type; the first step was called
\* and changed the table set before run raised.
C5_Witness ==
    /\ status = "raised"
    /\ i = 1
    /\ calls = <<0>>
    /\ transformations[2].type = "pivot"
    /\ heap[result] # input
    /\ error.msg = "Unknown transformation type: pivot"

----------------------------------------------------------------------------
(* Properties of GroupByTransformation.transform, checked under           *)
(* SpecGroupBy: one call with the config transformations[1] on the table  *)
(* set `input`.                                                            *)

\* the tuple of values a row holds at the columns; a row without a column holds
\* the empty string there
TupleAt(row, columns) ==
    [j \in 1..Len(columns) |->
        IF \E m \in 1..Len(row) : row[m].k = columns[j]
        THEN row[CHOOSE m \in 1..Len(row) : row[m].k = columns[j]].v
        ELSE StrV("")]

\* the positions in T at which a tuple of values is seen for the first time
FirstSeen(T, columns) ==
    {j \in 1..Len(T) : \A m \in 1..(j - 1) : TupleAt(T[m], columns) # TupleAt(T[j], columns)}

\* the n-th smallest member of a set of numbers
Nth(S, n) == CHOOSE j \in S : Cardinality({m \in S : m < j}) = n - 1

\* the rows of T that hold the same tuple as row j
GroupOf(T, columns, j) ==
    SelectSeq(T, LAMBDA row : TupleAt(row, columns) = TupleAt(T[j], columns))

\* the values that the rows hold at col, rows without col or with null left out
NonNull(rows, col) ==
    LET has == SelectSeq(rows, LAMBDA row :
                   \E m \in 1..Len(row) : row[m].k = col /\ row[m].v.t # "none")
    IN  [j \in 1..Len(has) |-> has[j][CHOOSE m \in 1..Len(has[j]) : has[j][m].k = col].v]

\* the sum of the numbers of a sequence of int values
RECURSIVE SumInts(_)
SumInts(values) == IF values = <<>> THEN 0 ELSE Head(values).n + SumInts(Tail(values))

GroupBySource == DGet(input, transformations[1].source, <<>>)
GroupByOutput == DGet(heap[data], transformations[1].source, <<>>)

\* C6: GroupBy emits one row per distinct tuple of values at the grouping columns,
\* in the order in which the tuples are first seen in the source table, so the
\* number of output rows is the number of distinct tuples.
C6_OneRowPerTuple ==
    status = "returned" =>
        LET config == transformations[1]
            T == GroupBySource
            out == GroupByOutput
            first == FirstSeen(T, config.columns)
        IN  /\ Len(out) = Cardinality({TupleAt(T[j], config.columns) : j \in 1..Len(T)})
            /\ Len(out) = Cardinality(first)
            /\ \A n \in 1..Len(out) : \A c \in 1..Len(config.columns) :
                  ~DHas(config.aggregations, config.columns[c]) =>
                      /\ DHas(out[n], config.columns[c])
                      /\ DGet(out[n], config.columns[c], NoneV)
                            = TupleAt(T[Nth(first, n)], config.columns)[c]

\* C6 witness: three rows grouped by two columns; the first and the third row hold
\* the same tuple, the second another one, and two rows come out.
C6_Witness ==
    /\ status = "returned"
    /\ transformations[1].columns = <<"k", "g">>
    /\ Len(GroupBySource) = 3
    /\ TupleAt(GroupBySource[1], <<"k", "g">>) = TupleAt(GroupBySource[3], <<"k", "g">>)
    /\ TupleAt(GroupBySource[1], <<"k", "g">>) # TupleAt(GroupBySource[2], <<"k", "g">>)
    /\ TupleAt(GroupBySource[1], <<"k">>) = TupleAt(GroupBySource[2], <<"k">>)
    /\ Len(GroupByOutput) = 2

\* the columns that the config aggregates with count
CountColumns(config) ==
    {config.aggregations[j].k : j \in {m \in 1..Len(config.aggregations) :
                                          config.aggregations[m].v = "count"}}

\* the sum of the values that the rows hold at col
RECURSIVE ColumnSum(_, _)
ColumnSum(rows, col) ==
    IF rows = <<>> THEN 0 ELSE DGet(Head(rows), col, IntV(0)).n + ColumnSum(Tail(rows), col)

\* C7 as stated: the count values of the output rows sum to len(T).
C7_CountsSumToLen ==
    status = "returned" =>
        \A a \in CountColumns(transformations[1]) :
            ColumnSum(GroupByOutput, a) = Len(GroupBySource)

\* C7 as amended: the count values of the output rows sum to the number of rows of
\* T that hold a non-null value at the counted column (len(T) when every row does).
C7_CountsSumToNonNull ==
    status = "returned" =>
        \A a \in CountColumns(transformations[1]) :
            /\ ColumnSum(GroupByOutput, a) = Len(NonNull(GroupBySource, a))
            /\ (\A j \in 1..Len(GroupBySource) :
                    DGet(GroupBySource[j], a, NoneV).t # "none")
                  => ColumnSum(GroupByOutput, a) = Len(GroupBySource)

\* C7 witness: of three rows one holds null at the counted column and one lacks it;
\* the counts sum to 1.
C7_Witness ==
    /\ status = "returned"
    /\ CountColumns(transformations[1]) = {"v"}
    /\ Len(GroupBySource) = 3
    /\ \E j \in 1..3 : DHas(GroupBySource[j], "v") /\ DGet(GroupBySource[j], "v", NoneV) = NoneV
    /\ \E j \in 1..3 : ~DHas(GroupBySource[j], "v")
    /\ ColumnSum(GroupByOutput, "v") = 1

\* what an aggregation of the non-null values has to be
Aggregated(agg_func, values, res) ==
    CASE agg_func = "sum" -> res = IntV(SumInts(values))
      [] agg_func = "avg" ->
            IF values = <<>> THEN res = IntV(0)
            ELSE res.t = "float" /\ res.n * Len(values) = SumInts(values) * res.d
      [] agg_func = "count" -> res = IntV(Len(values))
      [] agg_func = "min" ->
            IF values = <<>> THEN res = IntV(0)
            ELSE /\ \E j \in 1..Len(values) : res = values[j]
                 /\ \A j \in 1..Len(values) : res.n <= values[j].n
      [] agg_func = "max" ->
            IF values = <<>> THEN res = IntV(0)
            ELSE /\ \E j \in 1..Len(values) : res = values[j]
                 /\ \A j \in 1..Len(values) : res.n >= values[j].n
      [] agg_func = "first" -> res = IF values = <<>> THEN NoneV ELSE values[1]
      [] agg_func = "last" -> res = IF values = <<>> THEN NoneV ELSE values[Len(values)]
      [] OTHER -> TRUE

\* C8: in every output row, each aggregated column holds the aggregation of the
\* non-null values of that column in the row's group: sum, avg (sum divided by the
\* number of non-null values), count, min, max, first, last; without a non-null
\* value 0 for sum, avg, count, min and max, and null for first and last.
C8_AggregatesOverNonNull ==
    status = "returned" =>
        LET config == transformations[1]
            T == GroupBySource
            out == GroupByOutput
            first == FirstSeen(T, config.columns)
        IN  \A n \in 1..Len(out) : \A a \in 1..Len(config.aggregations) :
                /\ DHas(out[n], config.aggregations[a].k)
                /\ Aggregated(config.aggregations[a].v,
                              NonNull(GroupOf(T, config.columns, Nth(first, n)),
                                      config.aggregations[a].k),
                              DGet(out[n], config.aggregations[a].k, NoneV))

\* C8 witness: a group of three rows with the values 1, null and 2 is aggregated
\* with a function; a second group has no non-null value.
C8_Witness ==
    /\ status = "returned"
    /\ transformations[1].columns = <<"k">>
    /\ Len(transformations[1].aggregations) = 1
    /\ transformations[1].aggregations[1] = Entry("v", "min")
    /\ Len(GroupBySource) = 3
    /\ Len(GroupByOutput) = 2
    /\ DGet(GroupBySource[1], "v", NoneV) = IntV(2)
    /\ DGet(GroupBySource[2], "v", NoneV) = NoneV
    /\ DGet(GroupBySource[3], "v", NoneV) = IntV(1)
    /\ DGet(GroupByOutput[1], "v", NoneV) = IntV(1)
    /\ DGet(GroupByOutput[2], "v", NoneV) = IntV(0)

\* C9 as stated: with an aggregation function outside sum, avg, count, min, max,
\* first, last, GroupBy raises a configuration error ("Unknown aggregation
\* function") whatever the source table is, a table without rows included.
C9_UnknownAggregationRaises ==
    LET config == transformations[1]
    IN  (/\ Terminated
         /\ ~Falsy(config.source) /\ DHas(input, config.source) /\ config.columns # <<>>
         /\ \E a \in 1..Len(config.aggregations) : config.aggregations[a].v \notin AggFuncs)
        => /\ status = "raised"
           /\ error.exc = TransformationError
           /\ Contains(error.msg, "Unknown aggregation function")

----------------------------------------------------------------------------
(* Properties of JoinTransformation.transform, checked under SpecJoin:    *)
(* one call with the config transformations[1] on the table set `input`.  *)

JoinLeftTable == DGet(input, transformations[1].left, <<>>)
JoinRightTable == DGet(input, transformations[1].right, <<>>)
JoinOutput ==
    DGet(heap[data], CfgGet(transformations[1], "output", transformations[1].left), <<>>)
JoinHow == CfgGet(transformations[1], "how", "inner")

\* a row's join-column value, the empty string for a row without the column
JoinValue(row) == TupleAt(row, <<transformations[1].on>>)[1]

\* the number of right rows that share the join-column value of a left row
MatchCount(left_row) ==
    Cardinality({j \in 1..Len(JoinRightTable) :
                    JoinValue(JoinRightTable[j]) = JoinValue(left_row)})

\* the number of output rows that left row n accounts for
Emitted(n) ==
    IF MatchCount(JoinLeftTable[n]) > 0 THEN MatchCount(JoinLeftTable[n])
    ELSE IF JoinHow = "left" THEN 1 ELSE 0

\* the number of output rows that the first n left rows account for
RECURSIVE EmittedUpTo(_)
EmittedUpTo(n) == IF n = 0 THEN 0 ELSE EmittedUpTo(n - 1) + Emitted(n)

\* the sum over the first n left rows of the number of matching right rows
RECURSIVE MatchesUpTo(_)
MatchesUpTo(n) == IF n = 0 THEN 0 ELSE MatchesUpTo(n - 1) + MatchCount(JoinLeftTable[n])

\* C10: an inner join emits, left row by left row in left-table order, one merged
\* row per right row with the left row's join-column value, so its row count is the
\* sum over the left rows of their numbers of matching right rows; a left join also
\* emits each unmatched left row, unchanged and at its place, so its row count is at
\* least the inner count, and len(left) when no left row is matched.
C10_JoinRowCount ==
    (status = "returned" /\ JoinHow \in {"inner", "left"}) =>
        LET L == JoinLeftTable
            out == JoinOutput
        IN  /\ Len(out) = EmittedUpTo(Len(L))
            /\ JoinHow = "inner" => Len(out) = MatchesUpTo(Len(L))
            /\ JoinHow = "left" =>
                  /\ Len(out) >= MatchesUpTo(Len(L))
                  /\ MatchesUpTo(Len(L)) = 0 => Len(out) = Len(L)
            /\ \A n \in 1..Len(L) :
                  \A m \in (EmittedUpTo(n - 1) + 1)..EmittedUpTo(n) :
                      /\ m <= Len(out)
                      /\ JoinValue(out[m]) = JoinValue(L[n])
                      /\ MatchCount(L[n]) = 0 => out[m] = L[n]
                      /\ MatchCount(L[n]) > 0 => out[m] # L[n]

\* C10 witness: a left join of two left rows with two right rows; the first left
\* row matches both right rows, the second none, and three rows come out.
C10_Witness ==
    /\ status = "returned"
    /\ JoinHow = "left"
    /\ Len(JoinLeftTable) = 2
    /\ Len(JoinRightTable) = 2
    /\ MatchCount(JoinLeftTable[1]) = 2
    /\ MatchCount(JoinLeftTable[2]) = 0
    /\ Len(JoinOutput) = 3
    /\ JoinOutput[3] = JoinLeftTable[2]

\* the j-th row of the right table, in table order, that shares the join-column
\* value of a left row
NthMatch(left_row, j) ==
    JoinRightTable[Nth({m \in 1..Len(JoinRightTable) :
                           JoinValue(JoinRightTable[m]) = JoinValue(left_row)}, j)]

\* the number of output rows that left row n accounts for, for any join type
LeftDerived(n) ==
    IF MatchCount(JoinLeftTable[n]) > 0 THEN MatchCount(JoinLeftTable[n])
    ELSE IF JoinHow \in {"left", "outer"} THEN 1 ELSE 0

RECURSIVE LeftDerivedUpTo(_)
LeftDerivedUpTo(n) == IF n = 0 THEN 0 ELSE LeftDerivedUpTo(n - 1) + LeftDerived(n)

\* C11: in every merged row each field of the left row keeps the left row's value
\* (so the join column, when the left row has it, holds the left row's value), and
\* every field of the right row other than the join column is present with the right
\* row's value: under its own name when the left row has no field of that name,
\* otherwise under 'right_' + name.
C11_MergedRowFields ==
    status = "returned" =>
        \A n \in 1..Len(JoinLeftTable) :
            \A j \in 1..MatchCount(JoinLeftTable[n]) :
                LET left_row == JoinLeftTable[n]
                    right_row == NthMatch(left_row, j)
                    m == LeftDerivedUpTo(n - 1) + j
                IN  /\ m <= Len(JoinOutput)
                    /\ \A e \in 1..Len(left_row) :
                          /\ DHas(JoinOutput[m], left_row[e].k)
                          /\ DGet(JoinOutput[m], left_row[e].k, NoneV) = left_row[e].v
                    /\ \A e \in 1..Len(right_row) :
                          right_row[e].k # transformations[1].on =>
                              LET name == IF DHas(left_row, right_row[e].k)
                                          THEN "right_" \o right_row[e].k
                                          ELSE right_row[e].k
                              IN  /\ DHas(JoinOutput[m], name)
                                  /\ DGet(JoinOutput[m], name, NoneV) = right_row[e].v

\* the right rows whose join-column value no left row has
UnmatchedRightRows ==
    SelectSeq(JoinRightTable,
              LAMBDA row : \A n \in 1..Len(JoinLeftTable) :
                               JoinValue(JoinLeftTable[n]) # JoinValue(row))

\* how many times a row occurs in a table
Occurrences(rows, row) == Cardinality({j \in 1..Len(rows) : rows[j] = row})

\* C12: the output is the left-derived rows, left row by left row (the merged rows
\* of a matched left row; an unmatched left row itself for left and outer, nothing
\* for inner and right), followed for right and outer by exactly the right rows
\* whose join-column value no left row has, each unchanged and as often as it is
\* in the right table, and followed by nothing for inner and left.
C12_UnmatchedRows ==
    status = "returned" =>
        LET L == JoinLeftTable
            out == JoinOutput
            base == LeftDerivedUpTo(Len(L))
            rest == SubSeq(out, base + 1, Len(out))
        IN  /\ base <= Len(out)
            /\ \A n \in 1..Len(L) :
                  /\ JoinHow \in {"inner", "right"} /\ MatchCount(L[n]) = 0 =>
                         LeftDerivedUpTo(n) = LeftDerivedUpTo(n - 1)
                  /\ \A m \in (LeftDerivedUpTo(n - 1) + 1)..LeftDerivedUpTo(n) :
                         /\ JoinValue(out[m]) = JoinValue(L[n])
                         /\ MatchCount(L[n]) = 0 => out[m] = L[n]
            /\ JoinHow \in {"inner", "left"} => rest = <<>>
            /\ JoinHow \in {"right", "outer"} =>
                  /\ Len(rest) = Len(UnmatchedRightRows)
                  /\ \A j \in 1..Len(rest) :
                         Occurrences(rest, rest[j]) = Occurrences(UnmatchedRightRows, rest[j])

\* C12 witness: an outer join in which one left row is matched and one is not, and
\* one right row is matched and one is not; the unmatched right row comes last.
C12_Witness ==
    /\ status = "returned"
    /\ JoinHow = "outer"
    /\ Len(JoinLeftTable) = 2
    /\ Len(JoinRightTable) = 2
    /\ MatchCount(JoinLeftTable[1]) = 1
    /\ MatchCount(JoinLeftTable[2]) = 0
    /\ Len(UnmatchedRightRows) = 1
    /\ Len(JoinOutput) = 3
    /\ JoinOutput[2] = JoinLeftTable[2]
    /\ JoinOutput[3] = UnmatchedRightRows[1]

----------------------------------------------------------------------------
(* Properties of RenameTransformation.transform, checked under SpecRename: *)
(* one call, or two calls one after the other, on the table set `input`.   *)

RenameSource == DGet(input, transformations[1].source, <<>>)
RenameOutput == DGet(heap[data], transformations[1].source, <<>>)

\* the column names of a row
Columns(row) == {row[j].k : j \in 1..Len(row)}

\* two rows with the same column names and the same value at each
SameRow(r, q) ==
    /\ Columns(r) = Columns(q)
    /\ \A c \in Columns(r) : DGet(r, c, NoneV) = DGet(q, c, NoneV)

\* no two columns have the same target name
Injective(m) == \A j, l \in 1..Len(m) : m[j].v = m[l].v => j = l

\* w maps every target name of m back to its column
IsInverse(w, m) ==
    /\ Len(w) = Len(m)
    /\ {<<w[j].k, w[j].v>> : j \in 1..Len(w)} = {<<m[j].v, m[j].k>> : j \in 1..Len(m)}

\* rename with an injective m, then rename with the inverse of m, both returned
RoundTrip ==
    /\ status = "returned"
    /\ Len(calls) = 2
    /\ Injective(transformations[1].mapping)
    /\ IsInverse(transformations[2].mapping, transformations[1].mapping)

\* a target name of m is a column of the row that m does not rename
Clash(row, m) ==
    \E j \in 1..Len(m) : m[j].v \in Columns(row) /\ ~DHas(m, m[j].v)

----------------------------------------------------------------------------
(* Properties of FilterTransformation.transform, checked under SpecFilter: *)
(* one call with the config transformations[1] on the table set `input`.   *)

FilterSource == DGet(input, transformations[1].source, <<>>)
FilterOutput == DGet(heap[data], transformations[1].source, <<>>)

\* the call was made with a config that names a table of the table set, a column
\* and an operator
Filtered ==
    /\ calls # <<>>
    /\ DHas(input, transformations[1].source)
    /\ transformations[1].column # Absent
    /\ transformations[1].operator # Absent

\* a row's value at the filter column, null for a row without the column
FilterValue(row) ==
    IF DHas(row, transformations[1].column)
    THEN DGet(row, transformations[1].column, NoneV)
    ELSE NoneV

\* whether a row's value x at the column satisfies the predicate <operator> value
Satisfies(operator, x, value) ==
    CASE operator = "eq" -> PyEq(x, value)
      [] operator = "ne" -> ~PyEq(x, value)
      [] operator = "gt" -> PyLess(value, x)
      [] operator = "lt" -> PyLess(x, value)
      [] operator = "gte" -> PyLess(value, x) \/ PyEq(x, value)
      [] operator = "lte" -> PyLess(x, value) \/ PyEq(x, value)
      [] operator = "contains" -> Contains(PyStr(x), PyStr(value))
      [] operator = "startswith" -> StartsWith(PyStr(x), PyStr(value))
      [] operator = "endswith" -> EndsWith(PyStr(x), PyStr(value))
      [] operator = "is_null" -> x = NoneV \/ x = StrV("")
      [] operator = "not_null" -> x # NoneV /\ x # StrV("")
      [] OTHER -> FALSE

\* the positions of the source table whose row satisfies the predicate
Kept ==
    {j \in 1..Len(FilterSource) :
        Satisfies(transformations[1].operator, FilterValue(FilterSource[j]),
                  transformations[1].value)}

\* C15: the table a filter call returns holds exactly the rows of its source table
\* whose value at the column satisfies the predicate, each unchanged and in the
\* order of the source table.
C15_OutputIsSubsequence ==
    (Filtered /\ status = "returned") =>
        /\ Len(FilterOutput) = Cardinality(Kept)
        /\ \A n \in 1..Len(FilterOutput) : FilterOutput[n] = FilterSource[Nth(Kept, n)]

\* C15 witness: of two rows the first does not satisfy v > 1 and the second does.
C15_Witness ==
    /\ Filtered
    /\ status = "returned"
    /\ transformations[1].operator = "gt"
    /\ Len(FilterSource) = 2
    /\ Kept = {2}
    /\ FilterOutput = <<FilterSource[2]>>

\* a row whose column is missing, null or the empty string
NullAt(row) ==
    \/ ~DHas(row, transformations[1].column)
    \/ DGet(row, transformations[1].column, NoneV) \in {NoneV, StrV("")}

\* C16: with is_null a filter call returns exactly the rows whose column is missing,
\* null or the empty string, with not_null exactly the other rows, both in source
\* order (so the two results partition the rows of every table), whether the config
\* holds a value or not.
C16_NullPartition ==
    (Filtered /\ transformations[1].operator \in {"is_null", "not_null"}) =>
        /\ status = "returned"
        /\ transformations[1].operator = "is_null" =>
               FilterOutput = SelectSeq(FilterSource, NullAt)
        /\ transformations[1].operator = "not_null" =>
               FilterOutput = SelectSeq(FilterSource, LAMBDA row : ~NullAt(row))

\* C16 witness: not_null without a value, on a row that holds the empty string and
\* a row that holds a number; the second row is the result.
C16_Witness ==
    /\ Filtered
    /\ transformations[1].operator = "not_null"
    /\ transformations[1].value = NoneV
    /\ Len(FilterSource) = 2
    /\ DGet(FilterSource[1], "v", NoneV) = StrV("")
    /\ DGet(FilterSource[2], "v", NoneV) = IntV(1)
    /\ FilterOutput = <<FilterSource[2]>>

\* C17: a filter call with an operator name outside the eleven known ones raises a
\* TransformationError that says 'Unknown operator', whatever the source table holds.
C17_UnknownOperatorRaises ==
    (Filtered /\ transformations[1].operator \notin FilterOperators) =>
        /\ status = "raised"
        /\ error.exc = TransformationError
        /\ Contains(error.msg, "Unknown operator")

\* C18: a filter call with an operator other than is_null and not_null and a config
\* without value raises a TransformationError and filters nothing.
C18_MissingValueRaises ==
    (/\ Filtered
     /\ transformations[1].operator \in FilterOperators \ {"is_null", "not_null"}
     /\ transformations[1].value = NoneV) =>
        /\ status = "raised"
        /\ error.exc = TransformationError
        /\ heap[data] = input

----------------------------------------------------------------------------
(* Properties of CalculateTransformation.transform as a step of a          *)
(* pipeline, checked under SpecCalculate.                                  *)

\* the table the pipeline was handed for the first step, and the table the first
\* step left when it is the only step done
CalculateSource == DGet(input, transformations[1].source, <<>>)
CalculateOutput == DGet(heap[result], transformations[1].source, <<>>)

\* the first step is a calculate step with the formula `formula`, on a table of
\* the table set, and it was called
Calculated(formula) ==
    /\ calls # <<>>
    /\ transformations[1].type = "calculate"
    /\ DHas(input, transformations[1].source)
    /\ transformations[1].output_column # Absent
    /\ transformations[1].formula = formula

\* the first step is the only step done
AfterFirstStep == i = 1 /\ calls = <<0>> /\ status = "running"

\* a row's operand for a column: the value it holds, null for a row without it
Operand(row, col) == DGet(row, col, NoneV)

\* an operand as a number, null and missing as 0
Number(v) == IF v = NoneV THEN FloatV(0, 1) ELSE FloatV(v.n, v.d)

\* the columns a formula refers to
ColumnsOf(formula) == IF formula = "cost / 0" THEN {"cost"} ELSE {"cost", "clicks"}

HoldsColumns(row, formula) == \A col \in ColumnsOf(formula) : DHas(row, col)

\* a row with a text that is no number in a column of the formula
NonNumeric(row, formula) ==
    \E col \in ColumnsOf(formula) : Operand(row, col).t = "str" /\ FloatOf(Operand(row, col)).exc # ""

\* a row that holds the columns of a division, all numbers or null, whose
\* denominator is 0
DividesByZero(row, formula) ==
    /\ HoldsColumns(row, formula)
    /\ ~NonNumeric(row, formula)
    /\ formula = "cost / 0" \/ Number(Operand(row, "clicks")).n = 0

FailsAt(row, formula) == NonNumeric(row, formula) \/ DividesByZero(row, formula)

\* cost / clicks or cost / 0 for a row that does not fail
Quotient(row, formula) ==
    Round4(NumDiv(Number(Operand(row, "cost")),
                  IF formula = "cost / 0" THEN IntV(0) ELSE Number(Operand(row, "clicks"))).val)

Divisions == {"cost / clicks", "cost / 0"}

\* C19: a calculate step over a table with a row whose division is by zero or has
\* an operand that is no number does not raise: it leaves a table of as many rows in
\* the same order, null in output_column of every such row and the quotient in that
\* of the other rows, and the pipeline goes on to its next step.
C19_FailingRowsAreNull ==
    \A formula \in Divisions :
        (/\ Calculated(formula)
         /\ \E j \in 1..Len(CalculateSource) : FailsAt(CalculateSource[j], formula)) =>
            /\ i >= 1
            /\ AfterFirstStep =>
                  /\ Len(CalculateOutput) = Len(CalculateSource)
                  /\ \A j \in 1..Len(CalculateSource) :
                        LET row == CalculateSource[j]
                        IN  CalculateOutput[j] =
                                DSet(row, transformations[1].output_column,
                                     IF FailsAt(row, formula) THEN NoneV
                                     ELSE Quotient(row, formula))

\* cost + clicks, null and missing as 0
Total(row) == Round4(NumAdd(Number(Operand(row, "cost")), Number(Operand(row, "clicks"))))

\* C20: a calculate step with the formula cost + clicks over rows whose cost and
\* clicks are numbers, null or missing does not raise, and output_column of every
\* row is the sum with 0 for a null and for a missing column.
C20_MissingColumnIsZero ==
    (/\ Calculated("cost + clicks")
     /\ \A j \in 1..Len(CalculateSource) : ~NonNumeric(CalculateSource[j], "cost + clicks")) =>
        /\ i >= 1
        /\ AfterFirstStep =>
              /\ Len(CalculateOutput) = Len(CalculateSource)
              /\ \A j \in 1..Len(CalculateSource) :
                    CalculateOutput[j] =
                        DSet(CalculateSource[j], transformations[1].output_column,
                             Total(CalculateSource[j]))

----------------------------------------------------------------------------
(* Properties of every operator's transform, checked under SpecOperators.  *)

\* the key a call binds: Join's output, its left table without one, and the
\* source of every other operator
Target(config) ==
    IF config.type = "join"
    THEN (IF config.output = Absent THEN config.left ELSE config.output)
    ELSE config.source

\* the keys of a table set
Keys(tables) == {tables[j].k : j \in 1..Len(tables)}

\* the key is bound to the same table in both table sets, or in neither
SameBinding(before, after, key) ==
    /\ DHas(before, key) <=> DHas(after, key)
    /\ DGet(before, key, <<>>) = DGet(after, key, <<>>)

\* C13: after a call of any operator every key of the table set other than the
\* operator's source (for Join: other than its output, or its left table when it
\* has no output) is bound to the table it was bound to before the call.
C13_OneKeyRebound ==
    calls # <<>> =>
        \A key \in (Keys(input) \cup Keys(heap[data])) \ {Target(transformations[1])} :
            SameBinding(input, heap[data], key)

\* C13 witness: an outer join of a and b into a new key c returned; a and b are as
\* they were and c holds rows of both.
C13_Witness ==
    /\ status = "returned"
    /\ transformations[1].type = "join"
    /\ transformations[1].how = "outer"
    /\ transformations[1].output = "c"
    /\ ~DHas(input, "c")
    /\ SameBinding(input, heap[data], "a")
    /\ SameBinding(input, heap[data], "b")
    /\ Len(DGet(heap[data], "c", <<>>)) > Len(DGet(input, "a", <<>>))

----------------------------------------------------------------------------
(* Join and the data of the left rows, checked under SpecJoin.             *)

\* row `out` holds every field of `row` with the value `row` has
KeepsFields(out, row) ==
    \A e \in 1..Len(row) : DHas(out, row[e].k) /\ DGet(out, row[e].k, NoneV) = row[e].v

\* C28: every row of the output that comes from a left row, merged with a right
\* row or not, holds every field of that left row with the left row's value, also
\* a field named 'right_' + k when the right row has a field k that the left row
\* has too.
C28_LeftDataKept ==
    status = "returned" =>
        \A n \in 1..Len(JoinLeftTable) :
            \A m \in (LeftDerivedUpTo(n - 1) + 1)..LeftDerivedUpTo(n) :
                m <= Len(JoinOutput) /\ KeepsFields(JoinOutput[m], JoinLeftTable[n])

----------------------------------------------------------------------------
(* What Calculate evaluates, checked under SpecCalculate.                  *)

\* the first step is a calculate step on a table of the table set, and it was
\* called
CalculatedAny == \E formula \in CalculateFormulas : Calculated(formula)

\* the expression of a row after the substitution of its columns
ExprOf(row) == Substitute(row, transformations[1].formula, Len(row)).text

\* an expression made of numerals, + - * / and parentheses that hold something
IsArithmetic(expr) ==
    LET toks == Lex(expr)
    IN  /\ \A j \in 1..Len(toks) : toks[j].t \in {"num", "op"}
        /\ \A j \in 1..(Len(toks) - 1) : ~(toks[j].s = "(" /\ toks[j + 1].s = ")")

\* C21: when the expression of a row holds more than arithmetic over numerals after
\* the substitution, no value of it is in output_column of that row after the
\* step: the column is null there (or the step raised).
C21_OnlyArithmeticIsWritten ==
    (CalculatedAny /\ AfterFirstStep) =>
        \A j \in 1..Len(CalculateSource) :
            ~IsArithmetic(ExprOf(CalculateSource[j])) =>
                /\ j <= Len(CalculateOutput)
                /\ DGet(CalculateOutput[j], transformations[1].output_column, NoneV) = NoneV

\* the fields of a row whose names are identifiers of the formula cost / clicks
OfFormula(row) == SelectSeq(row, LAMBDA e : e.k \in {"cost", "clicks"})

\* what the try block of a row gives when the row has those fields only
Alone(row) == RowValue(OfFormula(row), "cost / clicks")

\* C27: with the formula cost / clicks a row's column whose name is not an
\* identifier of the formula, such as c, changes nothing: the step raises exactly
\* when it raises for the rows without such columns, and output_column of a row is
\* what it is for the row without them.
C27_OnlyWholeIdentifiers ==
    Calculated("cost / clicks") =>
        /\ i = 0 <=> \E j \in 1..Len(CalculateSource) :
                        Alone(CalculateSource[j]).exc \notin {"", ZeroDivisionError, ValueError, TypeError}
        /\ AfterFirstStep =>
              \A j \in 1..Len(CalculateSource) :
                  /\ j <= Len(CalculateOutput)
                  /\ DGet(CalculateOutput[j], transformations[1].output_column, NoneV)
                         = IF Alone(CalculateSource[j]).exc = ""
                           THEN Alone(CalculateSource[j]).val
                           ELSE NoneV

----------------------------------------------------------------------------
(* Properties of SortTransformation.transform, checked under SpecSort.     *)

SortSource == DGet(input, transformations[1].source, <<>>)
SortOutput == DGet(heap[data], transformations[1].source, <<>>)

\* a row's value at the sort column, the empty string for a row without it
SortValue(row) == DGet(row, transformations[1].column, StrV(""))

\* the first call was a sort of a table of the table set by a column, and it
\* returned; no other call was made since
SortedOnce ==
    /\ calls = <<0>>
    /\ status = "returned"
    /\ DHas(input, transformations[1].source)
    /\ transformations[1].column # Absent

\* the rows of a table with the value x at the sort column, in the table's order
WithValue(rows, x) == SelectSeq(rows, LAMBDA row : PyEq(SortValue(row), x))

\* C22: the table a sort call returns holds the rows of its source table, each as
\* often as there, in ascending order of their values at the column (descending
\* order when descending is true), the rows with equal values in the order they
\* have in the source table, in both directions.
C22_SortIsStablePermutation ==
    SortedOnce =>
        /\ Len(SortOutput) = Len(SortSource)
        /\ \A p \in 1..Len(SortOutput) : \A q \in (p + 1)..Len(SortOutput) :
              IF transformations[1].descending
              THEN ~PyLess(SortValue(SortOutput[p]), SortValue(SortOutput[q]))
              ELSE ~PyLess(SortValue(SortOutput[q]), SortValue(SortOutput[p]))
        /\ \A j \in 1..Len(SortSource) :
              WithValue(SortOutput, SortValue(SortSource[j]))
                  = WithValue(SortSource, SortValue(SortSource[j]))

\* C22 witness: a descending sort of three rows that moved rows and left two
\* rows with the same value in the order of the source table.
C22_Witness ==
    /\ SortedOnce
    /\ transformations[1].descending
    /\ Len(SortSource) = 3
    /\ SortOutput # SortSource
    /\ SortValue(SortOutput[2]) = SortValue(SortOutput[3])
    /\ SortOutput[2] # SortOutput[3]
    /\ WithValue(SortSource, SortValue(SortOutput[2])) = <<SortOutput[2], SortOutput[3]>>

\* no two rows have equal values at the sort column
DistinctValues(rows) ==
    \A j \in 1..Len(rows) : \A m \in 1..Len(rows) :
        j # m => ~PyEq(SortValue(rows[j]), SortValue(rows[m]))

\* the place of row j of the source table in ascending order: one more than the
\* number of rows with a smaller value
Place(j) ==
    1 + Cardinality({m \in 1..Len(SortSource) :
                        PyLess(SortValue(SortSource[m]), SortValue(SortSource[j]))})

\* an ascending sort and then a descending sort by the same column were made
SortedTwice ==
    /\ calls = <<0, 1>>
    /\ status = "returned"
    /\ Len(transformations) = 2
    /\ ~transformations[1].descending
    /\ transformations[2].descending
    /\ transformations[2].column = transformations[1].column

\* C23: on a table whose values at the column are pairwise distinct, an ascending
\* sort followed by a descending sort of its result gives the rows of the
\* ascending order back to front.
C23_DescendingIsReverse ==
    (SortedTwice /\ DistinctValues(SortSource)) =>
        /\ Len(SortOutput) = Len(SortSource)
        /\ \A j \in 1..Len(SortSource) :
              SortOutput[Len(SortSource) + 1 - Place(j)] = SortSource[j]

\* C23 witness: three rows with distinct values, not in ascending order, were
\* sorted ascending and then descending.
C23_Witness ==
    /\ SortedTwice
    /\ DistinctValues(SortSource)
    /\ Len(SortSource) = 3
    /\ Place(1) = 2
    /\ Place(2) = 3
    /\ SortOutput = <<SortSource[2], SortSource[1], SortSource[3]>>

----------------------------------------------------------------------------
(* Properties of ExtractTransformation.transform, checked under            *)
(* SpecExtract.                                                            *)

ExtractSource == DGet(input, transformations[1].source, <<>>)
ExtractOutput == DGet(heap[data], transformations[1].source, <<>>)

\* the call was made with a complete config on a table of the table set, with
\* a pattern that compiles
ExtractedFrom ==
    /\ calls # <<>>
    /\ DHas(input, transformations[1].source)
    /\ transformations[1].column # Absent
    /\ transformations[1].output_column # Absent
    /\ transformations[1].pattern # Absent
    /\ Compile(transformations[1].pattern).err = ""

\* the stringified value of a row's column, the empty string without the column
Stringified(row) == PyStr(DGet(row, transformations[1].column, StrV("")))

\* the pattern has a group and is found somewhere in the text
FoundWithGroup(text) ==
    /\ Compile(transformations[1].pattern).n > 0
    /\ Search(Compile(transformations[1].pattern).items, text, 1).found

\* what the pattern's first group holds in the match found in the text
FirstGroup(text) == Search(Compile(transformations[1].pattern).items, text, 1).cap

\* C24: an extract call returns the rows of the source table in their order, each
\* with its fields as they were and a string in output_column, never null: the
\* text of the pattern's first group when the pattern has a group and is found in
\* the stringified value of the column, that stringified value otherwise.
C24_OutputColumnIsText ==
    ExtractedFrom =>
        /\ status = "returned"
        /\ Len(ExtractOutput) = Len(ExtractSource)
        /\ \A j \in 1..Len(ExtractSource) :
              LET text == Stringified(ExtractSource[j])
                  written == DGet(ExtractOutput[j], transformations[1].output_column, NoneV)
              IN  /\ ExtractOutput[j] =
                         DSet(ExtractSource[j], transformations[1].output_column, written)
                  /\ written.t = "str"
                  /\ ~FoundWithGroup(text) => written = StrV(text)
                  /\ (FoundWithGroup(text) /\ FirstGroup(text).set) =>
                         written = StrV(FirstGroup(text).text)

----------------------------------------------------------------------------
(* Configs that lack a key or name a missing table, checked under          *)
(* SpecOperators.                                                          *)

\* the config keys the operator's "requires" message names
NamedKeys(type) ==
    CASE type = "extract" -> {"source", "column", "pattern", "output_column"}
      [] type = "group_by" -> {"source", "columns"}
      [] type = "join" -> {"left", "right", "on"}
      [] type = "rename" -> {"source", "mapping"}
      [] type = "filter" -> {"source", "column", "operator"}
      [] type = "calculate" -> {"source", "output_column", "formula"}
      [] type = "sort" -> {"source", "column"}

\* the config keys a step requires: a filter requires value as well, unless its
\* operator is is_null or not_null
RequiredKeys(config) ==
    NamedKeys(config.type) \cup
        (IF config.type = "filter" /\ config.operator \notin {"is_null", "not_null"}
            THEN {"value"} ELSE {})

\* the config has no value, or an empty one, for the key
LacksKey(config, key) ==
    CASE key \in {"columns", "mapping"} -> config[key] = <<>>
      [] key = "value" -> config[key] = NoneV
      [] OTHER -> config[key] = Absent \/ config[key] = ""

LacksRequired(config) == \E key \in RequiredKeys(config) : LacksKey(config, key)

LacksNamed(config) == \E key \in NamedKeys(config.type) : LacksKey(config, key)

\* the table keys a config names
NamedTables(config) ==
    IF config.type = "join" THEN {config.left, config.right} ELSE {config.source}

NamesMissingTable(config) == \E key \in NamedTables(config) : ~DHas(input, key)

\* the call raised a TransformationError and the table set is as it was
RaisedUnchanged ==
    /\ status = "raised"
    /\ error.exc = "TransformationError"
    /\ heap[data] = input

\* C25: a call of any operator with a config that names a table key the table
\* set does not have raises a TransformationError whose message says 'not found'
\* and leaves the table set as it was; a call with a config that lacks a required
\* key does the same with a message that names the required keys.
C25_MissingTableOrKeyRaises ==
    calls # <<>> =>
        LET config == transformations[1]
        IN  /\ LacksRequired(config) =>
                  /\ RaisedUnchanged
                  /\ Contains(error.msg, "requires")
                  /\ \A key \in NamedKeys(config.type) : Contains(error.msg, key)
            /\ (~LacksRequired(config) /\ NamesMissingTable(config)) =>
                  /\ RaisedUnchanged
                  /\ Contains(error.msg, "not found")

\* the same for the keys the messages name: it holds of every operator
NamedKeyOrTableRaises ==
    calls # <<>> =>
        LET config == transformations[1]
        IN  /\ LacksNamed(config) =>
                  /\ RaisedUnchanged
                  /\ Contains(error.msg, "requires")
                  /\ \A key \in NamedKeys(config.type) : Contains(error.msg, key)
            /\ (~LacksNamed(config) /\ NamesMissingTable(config)) =>
                  /\ RaisedUnchanged
                  /\ Contains(error.msg, "not found")

----------------------------------------------------------------------------
(* backend/app/reports.py: run_report_pipeline as a function of a report   *)
(* config and of what fetch_source_data gives for its sources.             *)

HTTPException == "HTTPException"

\* the detail attribute of an exception: a text, a list of texts, or none
TextDetail(text) == [t |-> "str", s |-> text, items |-> <<>>]
ListDetail(items) == [t |-> "list", s |-> "", items |-> items]
NoDetail == [t |-> "none", s |-> "", items |-> <<>>]

\* an exception: its class, its detail attribute and str(e)
AppExc(type, detail, text) == [exc |-> type, detail |-> detail, msg |-> text]

\* raise HTTPException(status_code=status_code, detail=detail); its str() is
\* "<status_code>: <detail>"
HTTPError(status_code, detail) ==
    AppExc(HTTPException, TextDetail(detail), status_code \o ": " \o detail)

NoAppExc == AppExc("", NoDetail, "")

\* TransformationPipeline(steps).run(tables) from step n + 1 on, as the caller
\* sees it: the returned table set, or the TransformationError
RECURSIVE PipelineRun(_, _, _)
AfterStep(steps, n, config, out) ==
    IF out.exc # "" THEN
        Raises(Propagated(n, config, out).exc, Propagated(n, config, out).msg, out.tables)
    ELSE PipelineRun(steps, out.tables, n + 1)

PipelineRun(steps, tables, n) ==
    IF n = Len(steps) THEN Returns(tables)
    ELSE IF CurrentConfig(steps, n).type \notin TRANSFORMATIONS THEN
        Raises(TransformationError,
               "Unknown transformation type: " \o TypeText(CurrentConfig(steps, n)), tables)
    ELSE AfterStep(steps, n, CurrentConfig(steps, n),
                   Transform(CurrentConfig(steps, n).type, tables, CurrentConfig(steps, n)))

\* what run_report_pipeline gives: the returned dict, or the exception
Result(columns, result_data, row_count) ==
    [exc |-> NoAppExc, columns |-> columns, data |-> result_data, row_count |-> row_count]
Failure(e) == [exc |-> e, columns |-> <<>>, data |-> <<>>, row_count |-> 0]

\* list(result_data[0].keys()) of the last row instead of the first
ResultColumnsOfLast(result_data) ==
    IF result_data = <<>> THEN <<>> ELSE DKeys(result_data[Len(result_data)])

\* columns = [] / if result_data: columns = list(result_data[0].keys())
ResultColumns(result_data) ==
    IF result_data = <<>> THEN <<>> ELSE DKeys(result_data[1])

\* the dict returned for the table set `tables`: the table of its first key
Returned(tables) ==
    IF tables = <<>> THEN Result(<<>>, <<>>, 0)
    ELSE Result(ResultColumns(tables[1].v), tables[1].v, Len(tables[1].v))

\* if transformations: data = pipeline.run(data), a TransformationError becomes
\* an HTTPException
Transformed(out) ==
    IF out.exc # "" THEN Failure(HTTPError("400", "Transformation error: " \o out.msg))
    ELSE Returned(out.tables)

Global(transformations_, tables) ==
    IF transformations_ = <<>> THEN Returned(tables)
    ELSE Transformed(PipelineRun(transformations_, tables, 0))

\* the loop over the sources from source n on; fetched[n] is what
\* fetch_source_data gives for source n: rows, or an exception
RECURSIVE Sources(_, _, _, _)
SourceDone(config, fetched, tables, n, source_id, out) ==
    IF out.exc # "" THEN
        Failure(HTTPError("400", "Source '" \o source_id \o "' transformation error: "
                                     \o out.msg))
    ELSE Sources(config, fetched,
                 DSet(tables, source_id, DGet(out.tables, source_id, fetched[n].rows)),
                 n + 1)

Sources(config, fetched, tables, n) ==
    IF n > Len(config.sources) THEN Global(config.transformations, tables)
    ELSE IF fetched[n].exc # NoAppExc THEN Failure(fetched[n].exc)
    ELSE IF config.sources[n].source_transformations = <<>> THEN
        Sources(config, fetched, DSet(tables, config.sources[n].id, fetched[n].rows), n + 1)
    ELSE SourceDone(config, fetched, tables, n, config.sources[n].id,
                    PipelineRun(config.sources[n].source_transformations,
                                <<Entry(config.sources[n].id, fetched[n].rows)>>, 0))

run_report_pipeline(config, fetched) == Sources(config, fetched, <<>>, 1)

----------------------------------------------------------------------------
(* backend/app/reports.py: run_report as a state machine.  A call is at    *)
(* one of the awaits of the handler; calls of different clients take their *)
(* steps in any order.  The database calls, the fetch of the sources and   *)
(* the export are outside the program: each returns or raises.             *)

\* datetime.utcnow()
DateTimeV == [t |-> "datetime", n |-> 0, d |-> 1, s |-> "utcnow"]

\* ReportRun(report_id=report_id, status="running"), once added and refreshed
ReportRun(report_id) ==
    [report_id |-> report_id, status |-> "running", completed_at |-> NoneV,
     error_message |-> NoneV, result_url |-> NoneV]

\* await db.commit(); await db.refresh(run): both return, the commit raises,
\* or the commit returns and the refresh raises
DbOutcomes == {"ok", "commit raises", "refresh raises"}

\* the exception of a database call: a StatementError, whose detail is a list
DbError == AppExc("OperationalError", ListDetail(<<>>), "connection was closed")

\* whether the commit wrote the session's changes
Committed(db) == db # "commit raises"

\* run.error_message after the except clause, for the exception e:
\* getattr(e, "detail", str(e)), the first item of a list (str(e) for an empty
\* list), str(e) for anything else that is not a str
ErrorMessage(e) ==
    CASE e.detail.t = "none" -> StrV(e.msg)
      [] e.detail.t = "list" ->
            IF e.detail.items = <<>> THEN StrV(e.msg) ELSE e.detail.items[1]
      [] e.detail.t = "str" -> StrV(e.detail.s)
      [] OTHER -> StrV(e.msg)

\* a client that has not called run_report yet
Idle ==
    [pc |-> "idle", report |-> 0, config |-> <<>>, fetched |-> <<>>, run_id |-> 0,
     run |-> ReportRun(0), data_result |-> Failure(NoAppExc), export_request |-> <<>>,
     e |-> NoAppExc, pipeline |-> "", export |-> ""]

\* report = result.scalar_one_or_none(); if not report: raise HTTPException(404)
ReportNotFound(c) ==
    /\ requests[c].pc = "idle"
    /\ requests' = [requests EXCEPT ![c].pc = "raised",
                                    ![c].e = HTTPError("404", "Report not found")]
    /\ UNCHANGED <<report_runs, jobs, scheduled>>
    /\ UNCHANGED pipelineVars

\* run = ReportRun(report_id=report_id, status="running"); db.add(run);
\* await db.commit(); await db.refresh(run)
CreateRunOf(c, call, db) ==
    /\ requests[c].pc = "idle"
    /\ report_runs' = IF Committed(db) THEN Append(report_runs, ReportRun(call.report))
                      ELSE report_runs
    /\ requests' = [requests EXCEPT
           ![c].pc = IF db = "ok" THEN "created" ELSE "raised",
           ![c].report = call.report,
           ![c].config = call.config,
           ![c].fetched = call.fetched,
           ![c].run_id = IF Committed(db) THEN Len(report_runs) + 1 ELSE 0,
           ![c].run = ReportRun(call.report),
           ![c].e = IF db = "ok" THEN NoAppExc ELSE DbError]
    /\ UNCHANGED <<jobs, scheduled>>
    /\ UNCHANGED pipelineVars

\* data_result = await run_report_pipeline(report.config, ...)
PipelineDone(c, out) ==
    /\ requests' = [requests EXCEPT
           ![c].pc = IF out.exc = NoAppExc THEN "export" ELSE "except",
           ![c].data_result = out,
           ![c].e = out.exc,
           ![c].pipeline = IF out.exc = NoAppExc THEN "returned" ELSE "raised"]
    /\ UNCHANGED <<report_runs, jobs, scheduled>>
    /\ UNCHANGED pipelineVars

RunPipeline(c) ==
    /\ requests[c].pc = "created"
    /\ \E out \in {run_report_pipeline(requests[c].config, requests[c].fetched)} :
           PipelineDone(c, out)

\* export_config = report.config.get("export") or {};
\* export_type = export_config.get("type") or "google_sheets"
ExportType(config) ==
    IF Falsy(config.export.type) THEN "google_sheets" ELSE config.export.type

\* run.status = "completed"; run.completed_at = datetime.utcnow()
Completed(run, result_url) ==
    [run EXCEPT !.status = "completed", !.completed_at = DateTimeV,
                !.result_url = result_url]

\* run.result_url = export_result.get("spreadsheet_url") or ""
ResultUrl(export_result) == StrV(DGet(export_result, "spreadsheet_url", ""))

\* the google_sheets branch: the export request is built from data_result and
\* get_sheets_integration or do_export_to_sheets raises, or the export returns
ExportSheets(c, outcome) ==
    /\ requests[c].pc = "export"
    /\ ExportType(requests[c].config) = "google_sheets"
    /\ requests' = [requests EXCEPT
           ![c].pc = IF outcome.exc = NoAppExc THEN "commit" ELSE "except",
           ![c].export_request = <<Entry("columns", requests[c].data_result.columns),
                                   Entry("data", requests[c].data_result.data)>>,
           ![c].run = IF outcome.exc = NoAppExc
                         THEN Completed(requests[c].run, ResultUrl(outcome.export_result))
                         ELSE requests[c].run,
           ![c].e = outcome.exc,
           ![c].export = IF outcome.exc = NoAppExc THEN "returned" ELSE "raised"]
    /\ UNCHANGED <<report_runs, jobs, scheduled>>
    /\ UNCHANGED pipelineVars

\* any other export type: run.status = "completed" without an export
ExportNone(c) ==
    /\ requests[c].pc = "export"
    /\ ExportType(requests[c].config) # "google_sheets"
    /\ requests' = [requests EXCEPT
           ![c].pc = "commit",
           ![c].run = Completed(requests[c].run, requests[c].run.result_url),
           ![c].export = "none"]
    /\ UNCHANGED <<report_runs, jobs, scheduled>>
    /\ UNCHANGED pipelineVars

\* the row of the call's run after a commit
Written(c, run, db) ==
    IF Committed(db) THEN [report_runs EXCEPT ![requests[c].run_id] = run]
    ELSE report_runs

\* await db.commit(); await db.refresh(run) at the end of the try block
Commit(c, db) ==
    /\ requests[c].pc = "commit"
    /\ report_runs' = Written(c, requests[c].run, db)
    /\ requests' = [requests EXCEPT
           ![c].pc = IF db = "ok" THEN "returned" ELSE "except",
           ![c].e = IF db = "ok" THEN NoAppExc ELSE DbError]
    /\ UNCHANGED <<jobs, scheduled>>
    /\ UNCHANGED pipelineVars

\* except Exception as e: run.status = "failed"; run.completed_at = ...;
\* run.error_message = ...
Failed(run, e) ==
    [run EXCEPT !.status = "failed", !.completed_at = DateTimeV,
                !.error_message = ErrorMessage(e)]

\* the except clause with its await db.commit(); await db.refresh(run);
\* return run
Except(c, db) ==
    /\ requests[c].pc = "except"
    /\ report_runs' = Written(c, Failed(requests[c].run, requests[c].e), db)
    /\ requests' = [requests EXCEPT
           ![c].pc = IF db = "ok" THEN "returned" ELSE "raised",
           ![c].run = Failed(requests[c].run, requests[c].e),
           ![c].e = IF db = "ok" THEN requests[c].e ELSE DbError]
    /\ UNCHANGED <<jobs, scheduled>>
    /\ UNCHANGED pipelineVars

\* the calls of run_report explored: two clients, each calling once
Clients == {"c1", "c2"}

\* the rows the sources give: the second row of source a has no column v
SourceA == <<Row2(StrV("A"), IntV(1)), <<Entry("k", StrV("B"))>>>>
SourceB == <<Row2(StrV("A"), IntV(7))>>

SourceConfig(id, source_transformations) ==
    [id |-> id, source_transformations |-> source_transformations]

ReportConfig(sources, transformations_, export_type) ==
    [sources |-> sources, transformations |-> transformations_,
     export |-> [type |-> export_type]]

\* what fetch_source_data gives
Fetched(rows) == [exc |-> NoAppExc, rows |-> rows]
FetchRaises(e) == [exc |-> e, rows |-> <<>>]

\* a report, by id, with its config and with what its sources give in this run
ReportCall(report, config, fetched) ==
    [report |-> report, config |-> config, fetched |-> fetched]

ReportCalls ==
    { ReportCall(1, ReportConfig(<<SourceConfig("a", <<>>)>>, <<>>, Absent),
                 <<Fetched(SourceA)>>),
      ReportCall(1, ReportConfig(<<SourceConfig("a", <<>>)>>, <<>>, Absent),
                 <<Fetched(<<>>)>>),
      ReportCall(1, ReportConfig(<<SourceConfig("a", <<>>)>>, <<>>, Absent),
                 <<FetchRaises(HTTPError("400", "Yandex.Direct not connected"))>>),
      ReportCall(2, ReportConfig(<<SourceConfig("a",
                                       <<RenameConfig("a", <<Entry("k", "key")>>)>>)>>,
                                 <<>>, "google_sheets"),
                 <<Fetched(SourceA)>>),
      ReportCall(3, ReportConfig(<<SourceConfig("a", <<>>), SourceConfig("b", <<>>)>>,
                                 <<JoinConfig("a", "b", "k", Absent, "c")>>, Absent),
                 <<Fetched(SourceA), Fetched(SourceB)>>),
      ReportCall(3, ReportConfig(<<SourceConfig("a", <<>>), SourceConfig("b", <<>>)>>,
                                 <<JoinConfig("a", "b", "k", Absent, "c")>>, Absent),
                 <<Fetched(SourceA),
                   FetchRaises(AppExc("ConnectError", NoDetail,
                                      "All connection attempts failed"))>>),
      ReportCall(4, ReportConfig(<<SourceConfig("a", <<>>)>>,
                                 <<FilterConfig("a", "v", "eq", IntV(99))>>, "csv"),
                 <<Fetched(SourceA)>>),
      ReportCall(5, ReportConfig(<<>>, <<>>, "csv"), <<>>),
      ReportCall(6, ReportConfig(<<>>, <<SortConfig("a", "v", FALSE)>>, Absent), <<>>),
      ReportCall(7, ReportConfig(<<SourceConfig("a",
                                       <<FilterConfig("a", "v", "between", IntV(1))>>)>>,
                                 <<>>, Absent),
                 <<Fetched(SourceA)>>),
      ReportCall(8, ReportConfig(<<SourceConfig("a", <<>>)>>,
                                 <<SortConfig("a", "v", TRUE)>>, Absent),
                 <<Fetched(SourceA)>>) }

\* what the export gives: the dict do_export_to_sheets returns, or the exception
\* get_sheets_integration or do_export_to_sheets raises
Exported(export_result) == [exc |-> NoAppExc, export_result |-> export_result]
ExportRaises(e) == [exc |-> e, export_result |-> <<>>]

ExportOutcomes ==
    { Exported(<<Entry("spreadsheet_url", "https://docs.google.com/spreadsheets/d/1")>>),
      Exported(<<>>),
      ExportRaises(HTTPError("400", "Google Sheets not connected. Please connect it first.")),
      ExportRaises(AppExc("ReadTimeout", NoDetail, "")),
      ExportRaises(AppExc("StatementError", ListDetail(<<StrV("SQL: SELECT")>>),
                          "connection was closed")) }

CreateRun(c) == \E call \in ReportCalls, db \in DbOutcomes : CreateRunOf(c, call, db)

Export(c) == \E outcome \in ExportOutcomes : ExportSheets(c, outcome)

CommitRun(c) == \E db \in DbOutcomes : Commit(c, db)

ExceptRun(c) == \E db \in DbOutcomes : Except(c, db)

RunReportInit ==
    /\ requests = [c \in Clients |-> Idle]
    /\ report_runs = <<>>
    /\ jobs = <<>>
    /\ scheduled = <<>>
    /\ heap = <<>>
    /\ data = ""
    /\ result = ""
    /\ transformations = <<>>
    /\ i = 0
    /\ status = ""
    /\ error = NoExc
    /\ input = <<>>
    /\ calls = <<>>

RunReportNext ==
    \E c \in Clients :
        \/ ReportNotFound(c)
        \/ CreateRun(c)
        \/ RunPipeline(c)
        \/ Export(c)
        \/ ExportNone(c)
        \/ CommitRun(c)
        \/ ExceptRun(c)

SpecRunReport == RunReportInit /\ [][RunReportNext]_vars

----------------------------------------------------------------------------
(* Properties of run_report_pipeline and run_report, checked under         *)
(* SpecRunReport.                                                          *)

\* the calls whose run_report_pipeline returned
PipelineReturned == {c \in Clients : requests[c].pipeline = "returned"}

\* C26: in the dict run_report_pipeline returns, and in the export request built
\* from it, columns is the key list of the first row of data, columns is empty
\* when data has no rows or the report has no source, and row_count is the
\* number of rows of data.
C26_ColumnsOfFirstRow ==
    \A c \in PipelineReturned :
        LET r == requests[c].data_result
        IN  /\ r.data # <<>> => r.columns = [j \in 1..Len(r.data[1]) |-> r.data[1][j].k]
            /\ r.data = <<>> => r.columns = <<>>
            /\ requests[c].config.sources = <<>> => r.columns = <<>>
            /\ r.row_count = Len(r.data)
            /\ requests[c].export \in {"returned", "raised"} =>
                   /\ DGet(requests[c].export_request, "columns", <<>>) = r.columns
                   /\ DGet(requests[c].export_request, "data", <<>>) = r.data

\* C26 witness: a source transformation renamed k, the returned table has two
\* rows, the second without v, the columns are those of the first row, and the
\* export got them.
C26_Witness ==
    \E c \in PipelineReturned :
        /\ requests[c].report = 2
        /\ requests[c].config.sources[1].source_transformations # <<>>
        /\ requests[c].data_result.row_count = 2
        /\ requests[c].data_result.columns = <<"key", "v">>
        /\ DKeys(requests[c].data_result.data[2]) = <<"key">>
        /\ requests[c].export = "returned"
        /\ DGet(requests[c].export_request, "columns", <<>>) = <<"key", "v">>

\* the row of a call's run
RunOf(c) == report_runs[requests[c].run_id]

\* what the claim says of the run of a call that returned
Left(c) ==
    /\ RunOf(c).status # "running"
    /\ (requests[c].pipeline = "returned" /\ requests[c].export \in {"returned", "none"}) =>
           /\ RunOf(c).status = "completed"
           /\ RunOf(c).completed_at # NoneV
    /\ (requests[c].pipeline = "raised" \/ requests[c].export = "raised") =>
           /\ RunOf(c).status = "failed"
           /\ RunOf(c).completed_at # NoneV
           /\ RunOf(c).error_message.t = "str"

\* a row that is added is 'running'
StartsRunning ==
    \A j \in (1..Len(report_runs')) \ (1..Len(report_runs)) :
        report_runs'[j].status = "running"

\* a row that is 'completed' or 'failed' keeps its status
StaysTerminal ==
    \A j \in 1..Len(report_runs) :
        report_runs[j].status \in {"completed", "failed"} =>
            report_runs'[j].status = report_runs[j].status

\* C29: every run starts 'running'; when run_report returns, the run is
\* 'completed' with completed_at set if pipeline and export both succeeded, and
\* 'failed' with completed_at and a text error_message set if the pipeline or
\* the export raised; a 'completed' or 'failed' run never changes its status.
C29_RunLifecycle ==
    /\ [](\A c \in Clients : requests[c].pc = "returned" => Left(c))
    /\ [][StartsRunning /\ StaysTerminal]_vars

\* the same for the calls none of whose database calls raised: it holds
LifecycleWithoutDbError ==
    \A c \in Clients :
        (requests[c].pc = "returned" /\ requests[c].e # DbError) => Left(c)

----------------------------------------------------------------------------
(* backend/app/scheduler.py: schedule_report and unschedule_report on the  *)
(* scheduler's job store.  A job is its id, its name, its args and the     *)
(* five fields of its cron trigger.                                        *)

\* s.split(): the words of s between runs of blanks
RECURSIVE SplitFrom(_, _, _, _)
SplitFrom(s, j, word, parts) ==
    IF j > Len(s) THEN (IF word = "" THEN parts ELSE Append(parts, word))
    ELSE IF SubSeq(s, j, j) = " "
        THEN SplitFrom(s, j + 1, "", IF word = "" THEN parts ELSE Append(parts, word))
    ELSE SplitFrom(s, j + 1, word \o SubSeq(s, j, j), parts)

Split(s) == SplitFrom(s, 1, "", <<>>)

\* f"report_{report_id}"
JobId(report_id) == "report_" \o ToString(report_id)

\* sched.get_job(job_id)
GetJob(store, job_id) == \E j \in 1..Len(store) : store[j].id = job_id

\* sched.remove_job(job_id)
RemoveJob(store, job_id) == SelectSeq(store, LAMBDA job : job.id # job_id)

\* if sched.get_job(job_id): sched.remove_job(job_id)
RemoveExisting(store, job_id) ==
    IF GetJob(store, job_id) THEN RemoveJob(store, job_id) ELSE store

\* whether CronTrigger takes the text for a field: *, a number, or */number
IsCronField(text) ==
    \/ text = "*"
    \/ text # "" /\ \A j \in 1..Len(text) : SubSeq(text, j, j) \in Digits
    \/ /\ Len(text) > 2
       /\ SubSeq(text, 1, 2) = "*/"
       /\ \A j \in 3..Len(text) : SubSeq(text, j, j) \in Digits

\* sched.add_job(run_scheduled_report, trigger=trigger, args=[report_id],
\*               id=job_id, name=f"Report {report_id}", replace_existing=True)
AddJob(store, job_id, report_id, parts) ==
    Append(RemoveJob(store, job_id),
           [id |-> job_id, name |-> "Report " \o ToString(report_id),
            args |-> <<report_id>>, trigger |-> parts])

MaxScheduleCalls == 3  \* longest sequence of schedule_report and unschedule_report calls

\* the outcome of schedule_report on a job store: the store it leaves and the
\* exception it raises, "" when it returns
Scheduled(store, raised) == [jobs |-> store, raised |-> raised]

ScheduleOn(store, report_id, parts, job_id) ==
    IF Len(parts) # 5 THEN Scheduled(RemoveExisting(store, job_id), ValueError)
    ELSE IF \E j \in 1..5 : ~IsCronField(parts[j])
        THEN Scheduled(RemoveExisting(store, job_id), ValueError)
    ELSE Scheduled(AddJob(RemoveExisting(store, job_id), job_id, report_id, parts), "")

\* schedule_report(report_id, cron_expression, job_id)
schedule_report(report_id, cron_expression, job_id) ==
    /\ Len(scheduled) < MaxScheduleCalls
    /\ \E out \in {ScheduleOn(jobs, report_id, Split(cron_expression),
                              IF job_id = Absent THEN JobId(report_id) ELSE job_id)} :
           /\ jobs' = out.jobs
           /\ scheduled' = Append(scheduled,
                  [op |-> "schedule_report", report_id |-> report_id,
                   cron_expression |-> cron_expression, job_id |-> job_id,
                   raised |-> out.raised, before |-> jobs])
    /\ UNCHANGED <<report_runs, requests>>
    /\ UNCHANGED pipelineVars

\* unschedule_report(report_id)
unschedule_report(report_id) ==
    /\ Len(scheduled) < MaxScheduleCalls
    /\ jobs' = RemoveExisting(jobs, JobId(report_id))
    /\ scheduled' = Append(scheduled,
           [op |-> "unschedule_report", report_id |-> report_id,
            cron_expression |-> "", job_id |-> Absent,
            raised |-> "", before |-> jobs])
    /\ UNCHANGED <<report_runs, requests>>
    /\ UNCHANGED pipelineVars

\* the calls explored
ScheduledReports == {1, 2}

CronExpressions ==
    {"0 9 * * 1", "*/5  * * * *", "0 9 * *", "0 9 * * 1 2", "", "a 9 * * 1"}

JobIds == {Absent, "nightly"}

ScheduleReport ==
    \E report_id \in ScheduledReports, cron_expression \in CronExpressions,
       job_id \in JobIds :
        schedule_report(report_id, cron_expression, job_id)

UnscheduleReport == \E report_id \in ScheduledReports : unschedule_report(report_id)

SchedulerInit ==
    /\ jobs = <<>>
    /\ scheduled = <<>>
    /\ report_runs = <<>>
    /\ requests = <<>>
    /\ heap = <<>>
    /\ data = ""
    /\ result = ""
    /\ transformations = <<>>
    /\ i = 0
    /\ status = ""
    /\ error = NoExc
    /\ input = <<>>
    /\ calls = <<>>

SchedulerNext == ScheduleReport \/ UnscheduleReport

SpecScheduler == SchedulerInit /\ [][SchedulerNext]_vars

----------------------------------------------------------------------------
(* Properties of schedule_report and unschedule_report, checked under      *)
(* SpecScheduler.                                                          *)

\* the last call
LastScheduled == scheduled[Len(scheduled)]

\* the jobs of a report's id
JobsOf(report_id) == {j \in 1..Len(jobs) : jobs[j].id = JobId(report_id)}

\* C30: a schedule_report call that raised because its cron expression has not
\* exactly five fields left the job store as it was; after any calls of
\* schedule_report and unschedule_report there is at most one job with the id
\* report_<id> of a report.
C30_InvalidCronKeepsJobs ==
    /\ \A report_id \in ScheduledReports : Cardinality(JobsOf(report_id)) <= 1
    /\ (/\ scheduled # <<>>
        /\ LastScheduled.op = "schedule_report"
        /\ LastScheduled.raised = ValueError
        /\ Len(Split(LastScheduled.cron_expression)) # 5) =>
           jobs = LastScheduled.before

\* the second half alone, and the first for reports without a job: they hold
AtMostOneJob ==
    /\ \A report_id \in ScheduledReports : Cardinality(JobsOf(report_id)) <= 1
    /\ \A j, k \in 1..Len(jobs) : jobs[j].id = jobs[k].id => j = k
    /\ (/\ scheduled # <<>>
        /\ LastScheduled.op = "schedule_report"
        /\ LastScheduled.raised = ValueError
        /\ ~GetJob(LastScheduled.before,
                    IF LastScheduled.job_id = Absent
                        THEN JobId(LastScheduled.report_id)
                        ELSE LastScheduled.job_id)) =>
           jobs = LastScheduled.before

====
